---- MODULE Spec2Model ----
(***************************************************************************)
(* A model of prek's run pipeline: the priority-group scheduler with       *)
(* fail-fast, the working-tree guard, the workspace discovery cache, the   *)
(* hook-environment reuse predicate, the exit-status mapping, the files    *)
(* each project is given, the cloning of remote repos and config loading.  *)
(*                                                                         *)
(* Each subsystem has its own specification over the shared variables:     *)
(*   SpecRun    the scheduler (hooks, priority groups, fail-fast)          *)
(*   SpecReport the scheduler with hooks that modify files                 *)
(*   SpecGuard  the working-tree guard (stash / restore)                   *)
(*   SpecCache  Workspace::discover and WorkspaceCache                     *)
(*   SpecEnv    InstallInfo, the marker file and the reuse search          *)
(*   SpecReuse  the same, for hooks given by their configured dependencies *)
(*   SpecExit   hook_impl, run outcomes and ExitStatus -> ExitCode         *)
(*   SpecFiles  the files each project's hooks are given (orphan projects) *)
(*   SpecRepos  Workspace::init_repos, one clone per remote (url, rev)     *)
(*   SpecConfig read_config: the repo entries of a config file             *)
(*   SpecDir    Project::from_directory: several config files in one dir   *)
(*   SpecOrder  the scheduler, for hooks with and without priority          *)
(*   SpecBuild  HookBuilder: update, combine, check, build                  *)
(*   SpecSelect Workspace::discover over fixed layouts, any selectors       *)
(*   SpecKey    env_key_dependencies: reuse between repositories            *)
(*   SpecInstall install_hook_script and uninstall                          *)
(*   SpecUv     Uv::install: the lock around the managed uv                 *)
(***************************************************************************)
EXTENDS Integers, Sequences, FiniteSets, TLC

(***************************************************************************)
(* Bounds of the model.                                                    *)
(***************************************************************************)
\* Number of hooks in the plan of one run.
NHooks == 3
\* Size of the global semaphore (CONCURRENCY / --jobs).
Concurrency == 2
\* Number of files in the working tree.
NFiles == 2
\* Clock ticks per second: SystemTime is finer than the seconds of as_secs().
SubSecond == 2
\* Number of changes the environment makes to config files and the clock.
MaxEnvOps == 2
\* Largest modification stamp and largest size of a config file.
MaxStamp == 1
MaxSize == 2
\* Number of environment directories under hooks/.
MaxEnvs == 1
\* Number of prek processes that ask for the managed uv at the same time.
NProcs == 3
\* Largest language version a toolchain resolves to.
MaxVersion == 2
\* Number of repo entries in the configs of the selected projects.
MaxRefs == 3
\* Number of entries under repos: in a config file.
MaxRepos == 2

VARIABLES
    \* ---- scheduler (SpecRun) ----
    split,          \* hooks 1..split belong to project 1 (deeper), the rest to project 2
    opt_priority,   \* per hook: the explicit `priority` option, or NoPriority
    hook_fail_fast, \* per hook: the resolved `fail_fast` option
    cli_fail_fast,  \* the run-global --fail-fast flag
    hstate,         \* per hook: "pending" | "running" | "passed" | "failed"
    done_upto,      \* key of the last priority group that completed, -1 before the first
    rstate,         \* "running" | "stopped" (fail-fast) | "finished"
    hook_modifies,  \* per hook: its process changes a file it was given
    tree_changed,   \* a hook of the current group changed a file (git diff differs)
    mod_groups,     \* keys of the groups after which the diff was found changed
    \* ---- working-tree guard (SpecGuard) ----
    g_dirty,        \* per file: the user had unstaged changes when the run started
    g_worktree,     \* per file: "user" (pre-run content) | "index" (staged content)
    g_touched,      \* per file: a hook wrote to it during the run
    g_patch,        \* "none" | "ondisk" | "deleted": the patch file under store/patches
    g_printed,      \* the path of the patch file was printed
    g_phase,        \* "start" | "patched" | "hooks" | "exiting" | "ended"
    g_unmerged,     \* the index has unmerged paths (a merge in conflict)
    g_cause,        \* how the run ends: "none" | "success" | "hook_failure" | "fatal" | "signal" | "unmerged"
    \* ---- workspace discovery and its cache (SpecCache) ----
    now,            \* the system clock, in sub-second ticks
    fs_cfg,         \* per directory: its config file [present, modified, size, loadable]
    root_exists,    \* the workspace root directory exists
    cache_file,     \* store/cache/prek/workspace/<hash>: none | garbage | a WorkspaceCache
    d_result,       \* what the last Workspace::discover did and returned
    env_ops,        \* number of changes the environment made (files, clock)
    \* ---- hook environments under store/hooks (SpecEnv) ----
    e_dirs,         \* per directory slot: [exists, language, marker]
    e_proc,         \* the installing process: idle, or [stage, slot, hook, info]
    e_found,        \* what the last reuse search returned and what it skipped
    \* ---- exit status of a command (SpecExit) ----
    x_in,           \* what the command meets: config, arguments, outcome of the run
    x_status,       \* the ExitStatus (or Err) the command returned
    x_code,         \* the exit code of the process, -1 while it runs
    \* ---- files given to the hooks of each project (SpecFiles) ----
    f_projects,     \* directories of the projects of the workspace (all_projects)
    f_orphan,       \* projects whose config sets orphan: true
    f_skipped,      \* projects whose hooks the selectors leave out
    f_nofiles,      \* projects whose files pattern matches no file
    f_files,        \* the run-wide set of files, each named by its directory
    f_phase,        \* "config" | "running" | "done"
    f_pos,          \* number of projects already given their files
    f_consumed,     \* files taken by an orphan project so far
    f_passed,       \* per project: the files handed to its hooks
    \* ---- remote repositories of the projects (SpecRepos) ----
    r_refs,         \* the repo entries of the selected projects, in flat_map order
    r_split,        \* entries 1..r_split belong to project 1, the rest to project 2
    r_tasks,        \* the deduplicated remote entries, one clone task each
    r_tstate,       \* per task: "queued" | "running" | "done"
    r_map,          \* remote_repos: pairs of a remote entry and the clone made for it
    r_resolved,     \* per entry: the Repo its project holds for it, 0 before
    r_pos,          \* number of projects whose repos are resolved
    r_phase,        \* "config" | "cloning" | "resolving" | "done" | "failed"
    \* ---- loading of a config file (SpecConfig) ----
    c_wire,         \* the entries under repos: as written in the file
    c_config,       \* Config::repos as deserialized, <<>> before
    c_error,        \* the error load_config returned, "none" without one
    c_warned,       \* the paths named in the 'Ignored unexpected keys' warning
    c_phase,        \* "file" | "loaded" | "read" | "error"
    \* ---- config files of one directory (SpecDir) ----
    a_present,      \* the config file names that exist in the directory
    a_broken,       \* the names whose content fails to load
    a_cache,        \* the config file the stored cache records for the directory, or "none"
    a_stale,        \* the stored cache is too old or its file changed since it was written
    a_result,       \* what the last discovery made of the directory
    \* ---- hook building (hook.rs HookBuilder) ----
    b_caps,         \* what the language of the hook supports: install_env, dependency, language_version
    b_options,      \* language_version and additional_dependencies of the hook being built
    b_default,      \* default_language_version of the project for the language, or "none"
    b_metadata,     \* the inline metadata block of the entry script
    b_phase,        \* "idle" | "manifest" | "updated" | "combined" | "built"
    b_result,       \* the Hook that build returned, or its error
    \* ---- the reuse of an environment between hooks ----
    k_envs,         \* the environments of the store: the hook each was created for and its install record
    k_reuse,        \* the last reuse: the hook that searched and the environment it was given
    \* ---- prek install and uninstall (cli/install.rs) ----
    i_hook,         \* the file at the hook path: "absent" or its content
    i_legacy,       \* the file at <hook>.legacy: "absent" or its content
    i_before,       \* the two files as the last install found them
    i_last,         \* "none" | "install" | "install_failed" | "round_trip" | "uninstall" | "uninstall_failed"
    i_overwrite,    \* the --overwrite flag of the last install
    \* ---- Uv::install (languages/python/uv.rs) ----
    u_pc,           \* per process: "idle" | "start" | "waiting" | "locked" | "installing" | "found" | "found_on_recheck" | "installed" | "failed"
    u_lock,         \* the process that holds the lock file of the uv directory, 0 when free
    u_binary        \* the uv binary is in the uv directory

runVars ==
    <<split, opt_priority, hook_fail_fast, cli_fail_fast, hstate, done_upto, rstate,
      hook_modifies, tree_changed, mod_groups>>

guardVars ==
    <<g_dirty, g_worktree, g_touched, g_patch, g_printed, g_phase, g_cause, g_unmerged>>

cacheVars == <<now, fs_cfg, root_exists, cache_file, d_result, env_ops>>

envVars == <<e_dirs, e_proc, e_found>>

exitVars == <<x_in, x_status, x_code>>

filesVars == <<f_projects, f_orphan, f_skipped, f_nofiles, f_files, f_phase, f_pos, f_consumed, f_passed>>

reposVars == <<r_refs, r_split, r_tasks, r_tstate, r_map, r_resolved, r_pos, r_phase>>

configVars == <<c_wire, c_config, c_error, c_warned, c_phase>>

dirVars == <<a_present, a_broken, a_cache, a_stale, a_result>>

buildVars == <<b_caps, b_options, b_default, b_metadata, b_phase, b_result>>

keyVars == <<k_envs, k_reuse>>

installVars == <<i_hook, i_legacy, i_before, i_last, i_overwrite>>

uvVars == <<u_pc, u_lock, u_binary>>

vars ==
    <<runVars, guardVars, cacheVars, envVars, exitVars, filesVars, reposVars, configVars, dirVars, buildVars, keyVars, installVars, uvVars>>

\* The variables a scheduler step leaves alone.
notRun == <<guardVars, cacheVars, envVars, exitVars, filesVars, reposVars, configVars, dirVars, buildVars, keyVars, installVars, uvVars>>

\* The variables a working-tree guard step leaves alone.
notGuard == <<runVars, cacheVars, envVars, exitVars, filesVars, reposVars, configVars, dirVars, buildVars, keyVars, installVars, uvVars>>

\* The variables a discovery step leaves alone.
notCache == <<runVars, guardVars, envVars, exitVars, filesVars, reposVars, configVars, dirVars, buildVars, keyVars, installVars, uvVars>>

\* The variables an environment step leaves alone.
notEnv == <<runVars, guardVars, cacheVars, exitVars, filesVars, reposVars, configVars, dirVars, buildVars, keyVars, installVars, uvVars>>

\* The variables a step of the exit path leaves alone.
notExit == <<runVars, guardVars, cacheVars, envVars, filesVars, reposVars, configVars, dirVars, buildVars, keyVars, installVars, uvVars>>

\* The variables a file-routing step leaves alone.
notFiles ==
    <<runVars, guardVars, cacheVars, envVars, exitVars, reposVars, configVars, dirVars, buildVars, keyVars, installVars, uvVars>>

\* The variables a step of Workspace::init_repos leaves alone.
notRepos ==
    <<runVars, guardVars, cacheVars, envVars, exitVars, filesVars, configVars, dirVars, buildVars, keyVars, installVars, uvVars>>

\* The variables a step of read_config leaves alone.
notConfig ==
    <<runVars, guardVars, cacheVars, envVars, exitVars, filesVars, reposVars, dirVars, buildVars, keyVars, installVars, uvVars>>

\* The variables a step on the config files of a directory leaves alone.
notDir ==
    <<runVars, guardVars, cacheVars, envVars, exitVars, filesVars, reposVars, configVars, buildVars, keyVars, installVars, uvVars>>

\* The variables a step of HookBuilder leaves alone.
notBuild ==
    <<runVars, guardVars, cacheVars, envVars, exitVars, filesVars, reposVars, configVars, dirVars, keyVars, installVars, uvVars>>

\* The variables a step of the reuse between hooks leaves alone.
notKey ==
    <<runVars, guardVars, cacheVars, envVars, exitVars, filesVars, reposVars, configVars, dirVars, buildVars, installVars, uvVars>>

\* The variables a step of install or uninstall leaves alone.
notInstall ==
    <<runVars, guardVars, cacheVars, envVars, exitVars, filesVars, reposVars, configVars, dirVars, buildVars, keyVars, uvVars>>

\* The variables a step of Uv::install leaves alone.
notUv ==
    <<runVars, guardVars, cacheVars, envVars, exitVars, filesVars, reposVars, configVars, dirVars, buildVars, keyVars, installVars>>

(***************************************************************************)
(* The state of each subsystem while another subsystem is examined.        *)
(***************************************************************************)
HookIds == 1..NHooks

\* Option<u32>::None of HookOptions::priority.
NoPriority == -1

Files == 1..NFiles

\* The scheduler before a run: no hook configured for it.
IdleRun ==
    /\ split = 0
    /\ opt_priority = [h \in HookIds |-> NoPriority]
    /\ hook_fail_fast = [h \in HookIds |-> FALSE]
    /\ cli_fail_fast = FALSE
    /\ hstate = [h \in HookIds |-> "pending"]
    /\ done_upto = -1
    /\ rstate = "running"
    /\ hook_modifies = [h \in HookIds |-> FALSE]
    /\ tree_changed = FALSE
    /\ mod_groups = {}

\* The guard before a run, with a clean working tree.
IdleGuard ==
    /\ g_dirty = [f \in Files |-> FALSE]
    /\ g_worktree = [f \in Files |-> "user"]
    /\ g_touched = [f \in Files |-> FALSE]
    /\ g_patch = "none"
    /\ g_printed = FALSE
    /\ g_phase = "start"
    /\ g_cause = "none"
    /\ g_unmerged = FALSE

\* Directories of the repository, as paths relative to the workspace root.
Dirs == {<<>>, <<1>>, <<2>>, <<1, 1>>}

Root == <<>>

\* A directory without a config file.
NoConfig == [present |-> FALSE, modified |-> 0, size |-> 0, loadable |-> FALSE]

\* No cache file in the store.
NoFile == [kind |-> "none"]

\* The result slot before any discovery.
NoResult ==
    [outcome |-> "none", verdict |-> "none", fresh |-> FALSE, dry_run |-> FALSE,
     all |-> <<>>, projects |-> <<>>]

\* The discovery subsystem before any run: only the root has a config file.
IdleCache ==
    /\ now = 0
    /\ fs_cfg = [d \in Dirs |->
                   IF d = Root
                   THEN [present |-> TRUE, modified |-> 0, size |-> 1, loadable |-> TRUE]
                   ELSE NoConfig]
    /\ root_exists = TRUE
    /\ cache_file = NoFile
    /\ d_result = NoResult
    /\ env_ops = 0

EnvIds == 1..MaxEnvs

\* A slot of hooks/ without a directory.
NoDir == [exists |-> FALSE, language |-> "", marker |-> [state |-> "none"]]

\* No install in progress.
NoProc == [stage |-> "idle"]

\* No reuse search made yet.
NoSearch == [env |-> 0, skipped |-> {}]

\* The hooks/ directory of an empty store.
IdleEnv ==
    /\ e_dirs = [i \in EnvIds |-> NoDir]
    /\ e_proc = NoProc
    /\ e_found = NoSearch

\* No command running.
NoInput == [entry |-> "none"]

IdleExit ==
    /\ x_in = NoInput
    /\ x_status = "none"
    /\ x_code = -1

\* No file routed to any project.
IdleFiles ==
    /\ f_projects = {Root}
    /\ f_orphan = {}
    /\ f_skipped = {}
    /\ f_nofiles = {}
    /\ f_files = {}
    /\ f_phase = "config"
    /\ f_pos = 0
    /\ f_consumed = {}
    /\ f_passed = [d \in Dirs |-> {}]

\* No repository of any project initialised.
IdleRepos ==
    /\ r_refs = <<>>
    /\ r_split = 0
    /\ r_tasks = <<>>
    /\ r_tstate = <<>>
    /\ r_map = {}
    /\ r_resolved = <<>>
    /\ r_pos = 0
    /\ r_phase = "config"

\* No config file being loaded.
IdleConfig ==
    /\ c_wire = <<>>
    /\ c_config = <<>>
    /\ c_error = "none"
    /\ c_warned = {}
    /\ c_phase = "file"

\* No discovery has examined the directory.
NoProject ==
    [outcome |-> "none", config |-> "none", warned |-> {}, fresh |-> FALSE,
     present |-> {}, broken |-> {}]

\* A directory without any config file, never examined.
IdleDir ==
    /\ a_present = {}
    /\ a_broken = {}
    /\ a_cache = "none"
    /\ a_stale = FALSE
    /\ a_result = NoProject

\* HookOptions with neither language_version nor additional_dependencies set.
NoOptions == [language_version |-> "none", has_dependencies |-> FALSE, additional_dependencies |-> <<>>]

\* A language that installs nothing.
NoCaps == [install_env |-> FALSE, dependency |-> FALSE, language_version |-> FALSE]

\* An entry script without an inline metadata block.
NoMetadata == [found |-> FALSE, dependencies |-> {}, requires |-> "none"]

NoHook == [outcome |-> "none", additional_dependencies |-> {}, language_request |-> "none"]

\* No hook is being built.
IdleBuild ==
    /\ b_caps = NoCaps
    /\ b_options = NoOptions
    /\ b_default = "none"
    /\ b_metadata = NoMetadata
    /\ b_phase = "idle"
    /\ b_result = NoHook

\* No environment has been created and none reused.
IdleKey ==
    /\ k_envs = {}
    /\ k_reuse = {}

\* The hooks directory of a repository without hook scripts.
IdleInstall ==
    /\ i_hook = "absent"
    /\ i_legacy = "absent"
    /\ i_before = [hook |-> "absent", legacy |-> "absent"]
    /\ i_last = "none"
    /\ i_overwrite = FALSE

\* The prek processes that need the managed uv at the same time.
Procs == 1..NProcs

\* No process asks for the managed uv.
IdleUv ==
    /\ u_pc = [p \in Procs |-> "idle"]
    /\ u_lock = 0
    /\ u_binary = FALSE

(***************************************************************************)
(* Working-tree guard (spec 4.8): stash the unstaged changes to a patch    *)
(* file, run the hooks on the staged content, restore on every exit path.  *)
(***************************************************************************)
ExitCauses == {"success", "hook_failure", "fatal", "signal"}

HasUnstaged == \E f \in Files : g_dirty[f]

ConflictsNeverChecked == FALSE

\* The check for unmerged paths made when the run starts.
HasUnmergedPaths == g_unmerged

\* The run aborts with "You have unmerged paths. Resolve them before running
\* prek": an error exit, nothing stashed, no hook started.
AbortUnmerged ==
    /\ g_phase = "start"
    /\ HasUnmergedPaths
    /\ g_phase' = "ended"
    /\ g_cause' = "unmerged"
    /\ UNCHANGED <<g_dirty, g_worktree, g_touched, g_patch, g_printed, g_unmerged, notGuard>>

\* Stash protocol, step 2 (first half): the diff of the unstaged changes is
\* written to store/patches and its path is logged.
WritePatch ==
    /\ g_phase = "start"
    /\ ~HasUnmergedPaths
    /\ HasUnstaged
    /\ g_patch' = "ondisk"
    /\ g_printed' = TRUE
    /\ g_phase' = "patched"
    /\ UNCHANGED <<g_dirty, g_worktree, g_touched, g_cause, g_unmerged, notGuard>>

\* Stash protocol, step 2 (second half): `git checkout -- .` leaves the
\* staged content in the working tree.
Checkout ==
    /\ g_phase = "patched"
    /\ g_worktree' = [f \in Files |-> IF g_dirty[f] THEN "index" ELSE g_worktree[f]]
    /\ g_phase' = "hooks"
    /\ UNCHANGED <<g_dirty, g_touched, g_patch, g_printed, g_cause, g_unmerged, notGuard>>

\* Nothing to stash: the hooks run on the working tree as it is.
NoStash ==
    /\ g_phase = "start"
    /\ ~HasUnmergedPaths
    /\ ~HasUnstaged
    /\ g_phase' = "hooks"
    /\ UNCHANGED <<g_dirty, g_worktree, g_touched, g_patch, g_printed, g_cause, g_unmerged, notGuard>>

\* A hook rewrites a file it was given.
HookWrites(f) ==
    /\ g_phase = "hooks"
    /\ ~g_touched[f]
    /\ g_touched' = [g_touched EXCEPT ![f] = TRUE]
    /\ UNCHANGED <<g_dirty, g_worktree, g_patch, g_printed, g_phase, g_cause, g_unmerged, notGuard>>

\* Stash protocol, step 3: the restore handler is installed on every exit
\* path (normal completion, error return, SIGINT/SIGTERM).
RestoreRuns(cause) == cause \in ExitCauses

\* The run leaves the hook phase: by completion (with or without a hook
\* failure), by a fatal error, or by a signal, which may also arrive between
\* the two halves of the stash.
Exit(cause) ==
    /\ \/ g_phase = "hooks"
       \/ g_phase = "patched" /\ cause \in {"fatal", "signal"}
    /\ g_cause' = cause
    /\ g_phase' = "exiting"
    /\ UNCHANGED <<g_dirty, g_worktree, g_touched, g_patch, g_printed, g_unmerged, notGuard>>

\* The patch may fail to apply only where a hook modified a file the user
\* had also modified.
MayConflict == \E f \in Files : g_dirty[f] /\ g_touched[f] /\ g_worktree[f] = "index"

\* The patch cannot apply on a working tree that was never checked out: it
\* still holds the changes the patch would add.
NeverCheckedOut == \E f \in Files : g_dirty[f] /\ g_worktree[f] = "user"

PatchAlwaysDeleted(applies) == "deleted"

\* Stash protocol, step 5: the patch file is deleted on a successful restore
\* only.
PatchAfterRestore(applies) == IF applies THEN "deleted" ELSE "ondisk"

\* Stash protocol, steps 4 and 5: `git apply` of the patch; on success the
\* patch file is deleted, on a conflict the working tree is not overwritten
\* and the patch file stays.
Restore(applies) ==
    /\ g_phase = "exiting"
    /\ g_phase' = "ended"
    /\ IF g_patch = "ondisk" /\ RestoreRuns(g_cause)
       THEN /\ (~applies) => (MayConflict \/ NeverCheckedOut)
            /\ applies => ~NeverCheckedOut
            /\ g_patch' = PatchAfterRestore(applies)
            /\ g_worktree' = IF applies THEN [f \in Files |-> "user"] ELSE g_worktree
       ELSE /\ applies
            /\ UNCHANGED <<g_worktree, g_patch>>
    /\ UNCHANGED <<g_dirty, g_touched, g_printed, g_cause, g_unmerged, notGuard>>

InitGuard ==
    /\ IdleUv
    /\ IdleInstall
    /\ IdleKey
    /\ IdleBuild
    /\ IdleDir
    /\ IdleConfig
    /\ IdleRepos
    /\ IdleFiles
    /\ IdleRun
    /\ IdleCache
    /\ IdleEnv
    /\ IdleExit
    /\ g_dirty \in [Files -> BOOLEAN]
    /\ g_worktree = [f \in Files |-> "user"]
    /\ g_touched = [f \in Files |-> FALSE]
    /\ g_patch = "none"
    /\ g_printed = FALSE
    /\ g_phase = "start"
    /\ g_cause = "none"
    /\ g_unmerged \in BOOLEAN

NextGuard ==
    \/ AbortUnmerged
    \/ WritePatch
    \/ Checkout
    \/ NoStash
    \/ \E f \in Files : HookWrites(f)
    \/ \E cause \in ExitCauses : Exit(cause)
    \/ \E applies \in BOOLEAN : Restore(applies)

SpecGuard == InitGuard /\ [][NextGuard]_vars

\* C3: whenever a run that stashed the unstaged changes has ended, by
\* success, hook failure, fatal error or signal, the working tree holds the
\* pre-run unstaged content again, or the patch file is still on disk and
\* its path was printed.
C3_WorktreeRestoredOrPatchKept ==
    (g_phase = "ended" /\ g_patch # "none") =>
        \/ \A f \in Files : g_dirty[f] => g_worktree[f] = "user"
        \/ g_patch = "ondisk" /\ g_printed

\* A run interrupted by a signal after a hook rewrote a file the user had
\* modified has restored the unstaged content.
C3_Witness ==
    /\ g_phase = "ended"
    /\ g_cause = "signal"
    /\ \E f \in Files : g_dirty[f] /\ g_touched[f] /\ g_worktree[f] = "user"
    /\ g_patch = "deleted"

(***************************************************************************)
(* Scheduler.                                                              *)
(***************************************************************************)
\* Explicit priorities a configuration may give (tests/run.rs uses 0, 5, 10).
Priorities == {5, 10}

Projects == {1, 2}

\* The project that owns hook h: projects are scheduled deeper first.
ProjectOf(h) == IF h <= split THEN 1 ELSE 2

IdxInWorkspace(h) == h - 1

\* Project::internal_init_hooks: the ordinal passed to HookBuilder::new is
\* hooks.len(), the zero-based position of the hook among the hooks of its
\* project, counted across repo entries.
Idx(h) == IF h <= split THEN h - 1 ELSE h - 1 - split

PriorityAlwaysIdx(h) == Idx(h)

PriorityOrZero(h) ==
    IF opt_priority[h] = NoPriority THEN 0 ELSE opt_priority[h]

\* HookBuilder::build: priority = options.priority.unwrap_or(idx).
Priority(h) ==
    IF opt_priority[h] = NoPriority THEN Idx(h) ELSE opt_priority[h]

\* HookOptions::fail_fast after fill_in_defaults, or the run-global flag.
FailFastOf(h) == hook_fail_fast[h] \/ cli_fail_fast

\* Groups are run project by project, and inside a project in ascending
\* priority; KeyBase (above every priority) separates the projects in one
\* ascending key.
KeyBase == 11 + NHooks

GroupKey(h) == ProjectOf(h) * KeyBase + Priority(h)

Finished(h) == hstate[h] \in {"passed", "failed"}

Started(h) == hstate[h] # "pending"

\* Keys of the groups that have not completed yet.
OpenKeys == {GroupKey(h) : h \in {x \in HookIds : GroupKey(x) > done_upto}}

HasOpenGroup == OpenKeys # {}

CurKey == CHOOSE k \in OpenKeys : \A j \in OpenKeys : k <= j

CurGroup == {h \in HookIds : GroupKey(h) = CurKey}

NumRunning == Cardinality({h \in HookIds : hstate[h] = "running"})

\* The hooks of a group are started in ordinal order.
FirstPending(g) == CHOOSE h \in g : hstate[h] = "pending"
                       /\ \A x \in g : hstate[x] = "pending" => h <= x

\* Stops the run after any failure.
GroupStopsOnAnyFailure(g) == \E h \in g : hstate[h] = "failed"

\* fail_fast: a failed hook with fail_fast (or --fail-fast) in the group
\* cancels every later group.
GroupStopsRun(g) == \E h \in g : hstate[h] = "failed" /\ FailFastOf(h)

StartHook(h) ==
    /\ rstate = "running"
    /\ HasOpenGroup
    /\ h \in CurGroup
    /\ hstate[h] = "pending"
    /\ h = FirstPending(CurGroup)
    /\ NumRunning < Concurrency
    /\ hstate' = [hstate EXCEPT ![h] = "running"]
    /\ UNCHANGED <<split, opt_priority, hook_fail_fast, cli_fail_fast, done_upto, rstate,
                   hook_modifies, tree_changed, mod_groups, notRun>>

FinishHook(h, code) ==
    /\ rstate = "running"
    /\ hstate[h] = "running"
    /\ hstate' = [hstate EXCEPT ![h] = IF code = 0 THEN "passed" ELSE "failed"]
    /\ tree_changed' = (tree_changed \/ hook_modifies[h])
    /\ UNCHANGED <<split, opt_priority, hook_fail_fast, cli_fail_fast, done_upto, rstate,
                   hook_modifies, mod_groups, notRun>>

GroupCompleteOnFailure(g) ==
    \/ \A h \in g : Finished(h)
    \/ /\ \E h \in g : hstate[h] = "failed" /\ FailFastOf(h)
       /\ \A h \in g : hstate[h] # "running"

\* A group is complete when every hook of it has been run to completion.
GroupComplete(g) == \A h \in g : Finished(h)

DiffNeverChecked(k) == mod_groups

\* Mutation detection: when the hooks of a group have completed, git diff is
\* compared with the diff taken before the group.
DiffAfterGroup(k) == IF tree_changed THEN mod_groups \cup {k} ELSE mod_groups

GroupDone ==
    /\ rstate = "running"
    /\ HasOpenGroup
    /\ GroupComplete(CurGroup)
    /\ done_upto' = CurKey
    /\ rstate' = IF GroupStopsRun(CurGroup) THEN "stopped" ELSE "running"
    /\ mod_groups' = DiffAfterGroup(CurKey)
    /\ tree_changed' = FALSE
    /\ UNCHANGED <<split, opt_priority, hook_fail_fast, cli_fail_fast, hstate, hook_modifies, notRun>>

RunDone ==
    /\ rstate = "running"
    /\ ~HasOpenGroup
    /\ rstate' = "finished"
    /\ UNCHANGED <<split, opt_priority, hook_fail_fast, cli_fail_fast, hstate, done_upto,
                   hook_modifies, tree_changed, mod_groups, notRun>>

RunEnded == rstate \in {"stopped", "finished"}

\* The hooks of the group with key k.
GroupOf(k) == {h \in HookIds : GroupKey(h) = k}

\* The status line of a hook whose group has completed.  A hook that is alone
\* in its group is Failed when files were modified; in a group of several
\* hooks the lines of the hooks show their exit codes only.
HookStatusLine(h) ==
    IF hstate[h] = "failed" THEN "Failed"
    ELSE IF GroupKey(h) \in mod_groups /\ Cardinality(GroupOf(GroupKey(h))) = 1 THEN "Failed"
    ELSE "Passed"

\* The hook is printed with "- files were modified by this hook".
ReportedModifiedByThisHook(h) ==
    GroupKey(h) \in mod_groups /\ Cardinality(GroupOf(GroupKey(h))) = 1

\* The group is printed under "Files were modified by following hooks".
ReportedModifiedByGroup(k) ==
    k \in mod_groups /\ Cardinality(GroupOf(k)) > 1

\* The exit status of a run that ended: Failure when a hook failed or files
\* were modified.
RunExit ==
    IF (\E h \in HookIds : hstate[h] = "failed") \/ mod_groups # {} THEN 1 ELSE 0

InitRun ==
    /\ IdleUv
    /\ IdleInstall
    /\ IdleKey
    /\ IdleBuild
    /\ IdleDir
    /\ IdleConfig
    /\ IdleRepos
    /\ IdleFiles
    /\ IdleGuard
    /\ IdleCache
    /\ IdleEnv
    /\ IdleExit
    /\ split \in 0..NHooks
    /\ opt_priority \in [HookIds -> Priorities \cup {NoPriority}]
    /\ hook_fail_fast \in [HookIds -> BOOLEAN]
    /\ cli_fail_fast \in BOOLEAN
    /\ hstate = [h \in HookIds |-> "pending"]
    /\ done_upto = -1
    /\ rstate = "running"
    /\ hook_modifies = [h \in HookIds |-> FALSE]
    /\ tree_changed = FALSE
    /\ mod_groups = {}

NextRun ==
    \/ \E h \in HookIds : StartHook(h)
    \/ \E h \in HookIds, code \in {0, 1} : FinishHook(h, code)
    \/ GroupDone
    \/ RunDone

SpecRun == InitRun /\ [][NextRun]_vars

\* Runs of one project without fail-fast, in which hooks may modify files.
InitReport ==
    /\ IdleUv
    /\ IdleInstall
    /\ IdleKey
    /\ IdleBuild
    /\ IdleDir
    /\ IdleConfig
    /\ IdleRepos
    /\ IdleFiles
    /\ IdleGuard
    /\ IdleCache
    /\ IdleEnv
    /\ IdleExit
    /\ split = 0
    /\ opt_priority \in [HookIds -> Priorities \cup {NoPriority}]
    /\ hook_fail_fast = [h \in HookIds |-> FALSE]
    /\ cli_fail_fast = FALSE
    /\ hstate = [h \in HookIds |-> "pending"]
    /\ done_upto = -1
    /\ rstate = "running"
    /\ hook_modifies \in [HookIds -> BOOLEAN]
    /\ tree_changed = FALSE
    /\ mod_groups = {}

SpecReport == InitReport /\ [][NextRun]_vars

(***************************************************************************)
(* Workspace discovery and its cache (workspace.rs).                       *)
(***************************************************************************)
\* WorkspaceCache::CURRENT_VERSION
CURRENT_VERSION == 1

\* WorkspaceCache::MAX_CACHE_AGE, in seconds (60 * 60).
MAX_CACHE_AGE == 3600

\* Duration::as_secs(): whole seconds, the fraction dropped.
AsSecs(d) == d \div SubSecond

\* Project::depth: the number of components of relative_path.
Depth(d) == Len(d)

\* Ord of PathBuf: component-wise lexicographic order.
RECURSIVE PathLess(_, _)
PathLess(a, b) ==
    IF a = <<>> THEN b # <<>>
    ELSE IF b = <<>> THEN FALSE
    ELSE IF Head(a) # Head(b) THEN Head(a) < Head(b)
    ELSE PathLess(Tail(a), Tail(b))

\* Orders the projects by path alone.
ProjectBeforeByPathOnly(a, b) == PathLess(a, b)

\* The comparator of sort_and_index_projects: deeper first, then by path.
ProjectBefore(a, b) ==
    \/ Depth(a) > Depth(b)
    \/ Depth(a) = Depth(b) /\ PathLess(a, b)

\* projects.sort_by of sort_and_index_projects, on the directories of the
\* projects.
RECURSIVE SortProjects(_)
SortProjects(S) ==
    IF S = {} THEN <<>>
    ELSE LET m == CHOOSE x \in S : \A y \in S \ {x} : ProjectBefore(x, y)
         IN  <<m>> \o SortProjects(S \ {m})

\* Workspace::sort_and_index_projects: sort, then with_idx(idx) for each
\* project in enumerate() order, counted from zero.
SortAndIndex(S) ==
    LET q == SortProjects(S)
    IN  [i \in 1..Len(q) |-> [relative_path |-> q[i], idx |-> i - 1]]

\* a is a proper ancestor directory of d.
IsAncestor(a, d) == Len(a) < Len(d) /\ SubSeq(d, 1, Len(a)) = a

\* std::fs::metadata of the config file of d succeeds.
MetadataOk(d) == root_exists /\ fs_cfg[d].present

\* Leaves the stored file as it is instead of writing the new cache.
CacheNotRewritten(projects) == cache_file

\* WorkspaceCache::new: one entry per project whose metadata can be read.
NewCache(projects) ==
    [kind |-> "cache",
     version |-> CURRENT_VERSION,
     created_at |-> now,
     config_files |-> {[path |-> d, modified |-> fs_cfg[d].modified, size |-> fs_cfg[d].size] :
                          d \in {x \in projects : MetadataOk(x)}}]

\* Compares modification times only.
IsValidIgnoringSize(c) ==
    /\ ~(c.created_at <= now /\ AsSecs(now - c.created_at) > MAX_CACHE_AGE)
    /\ \A f \in c.config_files :
           MetadataOk(f.path) /\ fs_cfg[f.path].modified = f.modified
    /\ root_exists

\* WorkspaceCache::is_valid.  created_at.elapsed() is an Err when created_at
\* is later than the clock, and the age check is then skipped.
IsValid(c) ==
    IF c.created_at <= now /\ AsSecs(now - c.created_at) > MAX_CACHE_AGE
    THEN FALSE
    ELSE IF \E f \in c.config_files :
                IF MetadataOk(f.path)
                THEN \/ fs_cfg[f.path].modified # f.modified
                     \/ fs_cfg[f.path].size # f.size
                ELSE TRUE
    THEN FALSE
    ELSE IF ~root_exists
    THEN FALSE
    ELSE TRUE

\* Selectors as discovery sees them: not given, or given with the set of
\* project paths that matches_path accepts.
NoSelectors == [given |-> FALSE, paths |-> {}]

Selections ==
    {NoSelectors}
        \cup {[given |-> TRUE, paths |-> {d}] : d \in Dirs \ {Root}}

MatchesPath(sel, d) == d \in sel.paths

\* A directory whose config fails to load: the walk quits with the error
\* when it is selected, and otherwise skips the directory (WalkState::Skip),
\* which also keeps the walk out of its subdirectories.
LoadFails(d) == fs_cfg[d].present /\ ~fs_cfg[d].loadable

Skipped(sel, d) == LoadFails(d) /\ ~(sel.given /\ MatchesPath(sel, d))

Visited(sel, d) == \A a \in Dirs : IsAncestor(a, d) => ~Skipped(sel, a)

\* Workspace::discover_fresh.
DiscoverFresh(sel) ==
    LET seen == {d \in Dirs : Visited(sel, d)}
        found == {d \in seen : fs_cfg[d].present /\ fs_cfg[d].loadable}
    IN  IF \E d \in seen : LoadFails(d) /\ sel.given /\ MatchesPath(sel, d)
        THEN [err |-> "ConfigError", projects |-> {}]
        ELSE IF found = {}
        THEN [err |-> "MissingConfigFile", projects |-> {}]
        ELSE [err |-> "none", projects |-> found]

\* WorkspaceCache::load accepts the stored file.
LoadAccepts(refresh) ==
    /\ ~refresh
    /\ cache_file.kind = "cache"
    /\ cache_file.version = CURRENT_VERSION
    /\ IsValid(cache_file)

\* WorkspaceCache::load removes a file it read and does not accept.
LoadRemoves(refresh) ==
    ~refresh /\ cache_file.kind # "none" /\ ~LoadAccepts(refresh)

\* The verdict of load on the stored file.
Verdict(refresh) ==
    IF refresh \/ cache_file.kind # "cache" THEN "none"
    ELSE IF LoadAccepts(refresh) THEN "valid" ELSE "rejected"

\* All projects are kept when the selectors match none of them.
SelectProjectsOrAll(all, sel) ==
    IF sel.given /\ \E i \in 1..Len(all) : MatchesPath(sel, all[i].relative_path)
    THEN SelectSeq(all, LAMBDA pr : MatchesPath(sel, pr.relative_path))
    ELSE all

\* The selector filter of Workspace::discover over all_projects.
SelectProjects(all, sel) ==
    IF sel.given
    THEN SelectSeq(all, LAMBDA pr : MatchesPath(sel, pr.relative_path))
    ELSE all

\* Saves the cache only after the selectors have matched a project.
DiscoverSavingAfterSelection(sel, refresh, dry) ==
    /\ root_exists /\ fs_cfg[Root].present
    /\ LET cached == IF LoadAccepts(refresh)
                     THEN {f.path : f \in cache_file.config_files}
                     ELSE {}
           fromCache == /\ LoadAccepts(refresh)
                        /\ cached # {}
                        /\ \A d \in cached : fs_cfg[d].loadable
           res == DiscoverFresh(sel)
           afterLoad == IF LoadRemoves(refresh) THEN NoFile ELSE cache_file
           allSet == IF fromCache THEN cached ELSE res.projects
           all == SortAndIndex(allSet)
           selected == SelectProjects(all, sel)
       IN  IF ~fromCache /\ res.err # "none"
           THEN /\ cache_file' = afterLoad
                /\ d_result' = [outcome |-> res.err, verdict |-> Verdict(refresh),
                                fresh |-> TRUE, dry_run |-> dry,
                                all |-> <<>>, projects |-> <<>>]
           ELSE /\ cache_file' = IF fromCache THEN cache_file
                                 ELSE IF selected = <<>> THEN afterLoad
                                 ELSE NewCache(allSet)
                /\ d_result' = [outcome |-> IF selected = <<>> THEN "MissingConfigFile" ELSE "ok",
                                verdict |-> Verdict(refresh),
                                fresh |-> ~fromCache, dry_run |-> dry,
                                all |-> all,
                                projects |-> selected]
    /\ UNCHANGED <<now, fs_cfg, root_exists, env_ops, notCache>>

\* Workspace::discover, called by a run (with or without --dry-run) after
\* find_root found the workspace root.
Discover(sel, refresh, dry) ==
    /\ root_exists /\ fs_cfg[Root].present
    /\ LET cached == IF LoadAccepts(refresh)
                     THEN {f.path : f \in cache_file.config_files}
                     ELSE {}
           fromCache == /\ LoadAccepts(refresh)
                        /\ cached # {}
                        /\ \A d \in cached : fs_cfg[d].loadable
           res == DiscoverFresh(sel)
           afterLoad == IF LoadRemoves(refresh) THEN NoFile ELSE cache_file
           allSet == IF fromCache THEN cached ELSE res.projects
           all == SortAndIndex(allSet)
           selected == SelectProjects(all, sel)
       IN  IF ~fromCache /\ res.err # "none"
           THEN /\ cache_file' = afterLoad
                /\ d_result' = [outcome |-> res.err, verdict |-> Verdict(refresh),
                                fresh |-> TRUE, dry_run |-> dry,
                                all |-> <<>>, projects |-> <<>>]
           ELSE /\ cache_file' = IF fromCache THEN cache_file ELSE NewCache(allSet)
                /\ d_result' = [outcome |-> IF selected = <<>> THEN "MissingConfigFile" ELSE "ok",
                                verdict |-> Verdict(refresh),
                                fresh |-> ~fromCache, dry_run |-> dry,
                                all |-> all,
                                projects |-> selected]
    /\ UNCHANGED <<now, fs_cfg, root_exists, env_ops, notCache>>

\* ---- the environment of discovery ----
EnvStep == env_ops < MaxEnvOps /\ env_ops' = env_ops + 1

\* Time passes: MAX_CACHE_AGE seconds, a sub-second tick more, or a second more.
Tick(delta) ==
    /\ EnvStep
    /\ now' = now + delta
    /\ UNCHANGED <<fs_cfg, root_exists, cache_file, d_result, notCache>>

\* The system clock is set back.
ClockBack ==
    /\ EnvStep
    /\ now > 0
    /\ now' = 0
    /\ UNCHANGED <<fs_cfg, root_exists, cache_file, d_result, notCache>>

\* The next modification time and the next size a file can take.
NextStamp(m) == (m + 1) % (MaxStamp + 1)

NextSize(sz) == (sz % MaxSize) + 1

\* A config file is created, with content that loads or does not.
CreateConfig(d, ok) ==
    /\ EnvStep
    /\ root_exists
    /\ ~fs_cfg[d].present
    /\ fs_cfg' = [fs_cfg EXCEPT ![d] =
                     [present |-> TRUE, modified |-> 0, size |-> 1, loadable |-> ok]]
    /\ UNCHANGED <<now, root_exists, cache_file, d_result, notCache>>

\* A config file gets a new modification time, its content kept.
TouchConfig(d) ==
    /\ EnvStep
    /\ fs_cfg[d].present
    /\ fs_cfg' = [fs_cfg EXCEPT ![d].modified = NextStamp(@)]
    /\ UNCHANGED <<now, root_exists, cache_file, d_result, notCache>>

\* A config file is rewritten within the granularity of its modification
\* time: the size changes, the mtime does not.
ResizeConfig(d) ==
    /\ EnvStep
    /\ fs_cfg[d].present
    /\ fs_cfg' = [fs_cfg EXCEPT ![d].size = NextSize(@)]
    /\ UNCHANGED <<now, root_exists, cache_file, d_result, notCache>>

\* A config file is edited so that it stops, or starts, to load.
EditConfig(d) ==
    /\ EnvStep
    /\ fs_cfg[d].present
    /\ fs_cfg' = [fs_cfg EXCEPT ![d].loadable = ~@, ![d].modified = NextStamp(@)]
    /\ UNCHANGED <<now, root_exists, cache_file, d_result, notCache>>

\* A config file is deleted.
RemoveConfig(d) ==
    /\ EnvStep
    /\ fs_cfg[d].present
    /\ fs_cfg' = [fs_cfg EXCEPT ![d] = NoConfig]
    /\ UNCHANGED <<now, root_exists, cache_file, d_result, notCache>>

\* The workspace root is deleted with everything in it.
RemoveRoot ==
    /\ EnvStep
    /\ root_exists
    /\ root_exists' = FALSE
    /\ fs_cfg' = [d \in Dirs |-> NoConfig]
    /\ UNCHANGED <<now, cache_file, d_result, notCache>>

\* Another version of the tool, or a crash while writing, left a cache file
\* of another schema version or one that does not parse.
ForeignCache(content) ==
    /\ EnvStep
    /\ cache_file' = content
    /\ cache_file' # cache_file
    /\ UNCHANGED <<now, fs_cfg, root_exists, d_result, notCache>>

ForeignContents ==
    {[kind |-> "garbage"],
     [kind |-> "cache", version |-> CURRENT_VERSION + 1, created_at |-> now, config_files |-> {}]}

TickSteps ==
    {MAX_CACHE_AGE * SubSecond, MAX_CACHE_AGE * SubSecond + 1, (MAX_CACHE_AGE + 1) * SubSecond}

InitCache ==
    /\ IdleUv
    /\ IdleInstall
    /\ IdleKey
    /\ IdleBuild
    /\ IdleDir
    /\ IdleConfig
    /\ IdleRepos
    /\ IdleFiles
    /\ IdleRun
    /\ IdleGuard
    /\ IdleCache
    /\ IdleEnv
    /\ IdleExit

NextCache ==
    \/ \E sel \in Selections, refresh \in BOOLEAN, dry \in BOOLEAN :
           Discover(sel, refresh, dry)
    \/ \E delta \in TickSteps : Tick(delta)
    \/ ClockBack
    \/ \E d \in Dirs, ok \in BOOLEAN : CreateConfig(d, ok)
    \/ \E d \in Dirs : TouchConfig(d)
    \/ \E d \in Dirs : ResizeConfig(d)
    \/ \E d \in Dirs : EditConfig(d)
    \/ \E d \in Dirs : RemoveConfig(d)
    \/ RemoveRoot
    \/ \E content \in ForeignContents : ForeignCache(content)

SpecCache == InitCache /\ [][NextCache]_vars

(***************************************************************************)
(* Claims about the discovery cache.                                       *)
(***************************************************************************)
\* A step of Workspace::discover: the only step of SpecCache that is not a
\* change made by the environment.
DiscoverStep == env_ops' = env_ops

\* A discover step that read a stored cache of the current schema version
\* and judged it.
JudgedCurrent ==
    /\ DiscoverStep
    /\ d_result'.verdict # "none"
    /\ cache_file.kind = "cache"
    /\ cache_file.version = CURRENT_VERSION

Range(q) == {q[i].relative_path : i \in 1..Len(q)}

\* Every recorded config file still exists with the same mtime and size,
\* and the workspace root exists.
FilesUnchanged(c) ==
    /\ root_exists
    /\ \A f \in c.config_files :
           /\ root_exists /\ fs_cfg[f.path].present
           /\ fs_cfg[f.path].modified = f.modified
           /\ fs_cfg[f.path].size = f.size

\* The age of the cache is at most one hour, exactly.
AgeAtMostOneHour(c) == now - c.created_at <= MAX_CACHE_AGE * SubSecond

\* The age of the cache in whole elapsed seconds is at most 3600; a creation
\* time later than the clock has no age.
WholeSecondsAtMostOneHour(c) ==
    c.created_at > now \/ AsSecs(now - c.created_at) <= MAX_CACHE_AGE

C6_RejectedCacheIsRediscovered ==
    [][(DiscoverStep /\ d_result'.verdict = "rejected") =>
          /\ d_result'.fresh
          /\ d_result'.all # <<>> =>
                /\ cache_file'.kind = "cache"
                /\ cache_file'.version = CURRENT_VERSION
                /\ cache_file'.created_at = now
                /\ cache_file'.config_files =
                       {[path |-> d, modified |-> fs_cfg[d].modified, size |-> fs_cfg[d].size] :
                           d \in Range(d_result'.all)}
                /\ \A d \in Range(d_result'.all) : fs_cfg[d].present /\ fs_cfg[d].loadable]_vars

\* A cache was rejected after time passed or a file changed, discovery ran
\* again and the stored cache is the one just written.
C6_Witness ==
    /\ d_result.verdict = "rejected"
    /\ d_result.fresh
    /\ d_result.outcome = "ok"
    /\ Len(d_result.all) > 1
    /\ cache_file.kind = "cache"
    /\ cache_file.created_at = now
    /\ now > 0

\* C9 as stated, for the part of a run that discovers the workspace: a run
\* with --dry-run leaves the working tree, the patches and the cache
\* directory of the store as they were.
C9_DryRunLeavesStoreUnchanged ==
    [][(DiscoverStep /\ d_result'.dry_run) =>
          /\ cache_file' = cache_file
          /\ UNCHANGED <<g_worktree, g_patch>>]_vars

(***************************************************************************)
(* Hook environments: install record, marker file and reuse (hook.rs).     *)
(***************************************************************************)
Languages == {"python", "node"}

Versions == 1..MaxVersion

\* semver::Version::new(0, 0, 0), the version of a record before the
\* toolchain is resolved.
Unresolved == 0

LocalRepo == [kind |-> "local", url |-> "", rev |-> ""]

Repos == {LocalRepo, [kind |-> "remote", url |-> "u", rev |-> "r1"]}

\* LanguageRequest: any version, or one specific version.
Requests == {[kind |-> "any", version |-> 0]} \cup {[kind |-> "exact", version |-> v] : v \in Versions}

\* The resolved hooks a run can ask an environment for.
Hooks ==
    {[language |-> l, repo |-> r, additional_dependencies |-> d, language_request |-> q] :
        l \in Languages, r \in Repos, d \in {{}, {"X"}}, q \in Requests}

\* impl Display for Repo.
RepoToString(r) ==
    IF r.kind = "remote" THEN r.url \o "@" \o r.rev ELSE r.kind

\* Hook::is_remote
IsRemote(h) == h.repo.kind = "remote"

\* Hook::env_key_dependencies
EnvKeyDependencies(h) ==
    IF ~IsRemote(h)
    THEN h.additional_dependencies
    ELSE h.additional_dependencies \cup {RepoToString(h.repo)}

\* LanguageRequest::satisfied_by
SatisfiedBy(q, info) == q.kind = "any" \/ q.version = info.language_version

MatchesIgnoringVersion(info, h) ==
    /\ info.language = h.language
    /\ info.dependencies = EnvKeyDependencies(h)

\* InstallInfo::matches
Matches(info, h) ==
    /\ info.language = h.language
    /\ info.dependencies = EnvKeyDependencies(h)
    /\ SatisfiedBy(h.language_request, info)

\* The orders in which a set of strings can be written as a JSON array.
Orders(S) == {q \in [1..Cardinality(S) -> S] : {q[i] : i \in 1..Cardinality(S)} = S}

\* serde_json::to_string_pretty(info): the content of the marker file.
Serialize(info, order) ==
    [language |-> info.language,
     language_version |-> info.language_version,
     dependencies |-> order]

FromEnvPathOkAlways(m) == m.state # "none"

\* InstallInfo::from_env_path succeeds: the marker exists and parses.
FromEnvPathOk(m) == m.state = "written"

\* InstallInfo::from_env_path: the record read back from the marker.
FromEnvPath(m) ==
    [language |-> m.content.language,
     language_version |-> m.content.language_version,
     dependencies |-> {m.content.dependencies[i] : i \in 1..Len(m.content.dependencies)}]

\* InstallInfo::new: a directory <language>-<random> is created under
\* hooks/ and held as a TempDir.
InstallInfoNew(i, h) ==
    /\ e_proc = NoProc
    /\ ~e_dirs[i].exists
    /\ e_dirs' = [e_dirs EXCEPT ![i] =
                     [exists |-> TRUE, language |-> h.language, marker |-> [state |-> "none"]]]
    /\ e_proc' = [stage |-> "temp", slot |-> i, hook |-> h,
                  info |-> [language |-> h.language,
                            dependencies |-> EnvKeyDependencies(h),
                            language_version |-> Unresolved]]
    /\ UNCHANGED <<e_found, notEnv>>

\* InstallInfo::with_language_version, with the version the installer
\* resolved for the hook's request.
WithLanguageVersion(v) ==
    /\ e_proc.stage = "temp"
    /\ e_proc.info.language_version = Unresolved
    /\ e_proc.hook.language_request.kind = "exact" => v = e_proc.hook.language_request.version
    /\ e_proc' = [e_proc EXCEPT !.info.language_version = v]
    /\ UNCHANGED <<e_dirs, e_found, notEnv>>

\* InstallInfo::persist_env_path: TempDir::keep, the directory keeps its name
\* and is no longer removed when the record is dropped.
PersistEnvPath ==
    /\ e_proc.stage = "temp"
    /\ e_proc.info.language_version # Unresolved
    /\ e_proc' = [e_proc EXCEPT !.stage = "kept"]
    /\ UNCHANGED <<e_dirs, e_found, notEnv>>

\* InstalledHook::mark_as_installed: fs write of the marker.  The write is
\* not atomic: a process that dies in it leaves a truncated file.
MarkAsInstalled(order, complete) ==
    /\ e_proc.stage \in {"temp", "kept"}
    /\ e_proc.info.language_version # Unresolved
    /\ e_dirs[e_proc.slot].marker.state = "none"
    /\ e_dirs' = [e_dirs EXCEPT ![e_proc.slot].marker =
                     [state |-> IF complete THEN "written" ELSE "partial",
                      content |-> Serialize(e_proc.info, order)]]
    /\ e_proc' = IF complete THEN e_proc ELSE NoProc
    /\ UNCHANGED <<e_found, notEnv>>

\* The install returns: the environment is kept and marked.
FinishInstall ==
    /\ e_proc.stage = "kept"
    /\ e_dirs[e_proc.slot].marker.state = "written"
    /\ e_proc' = NoProc
    /\ UNCHANGED <<e_dirs, e_found, notEnv>>

\* The installing process is killed: nothing is dropped, the directory
\* stays as it is.
Crash ==
    /\ e_proc.stage \in {"temp", "kept"}
    /\ e_proc' = NoProc
    /\ UNCHANGED <<e_dirs, e_found, notEnv>>

\* The install fails with an error before persist_env_path: dropping the
\* TempDir removes the directory.
FailInstall ==
    /\ e_proc.stage = "temp"
    /\ e_dirs' = [e_dirs EXCEPT ![e_proc.slot] = NoDir]
    /\ e_proc' = NoProc
    /\ UNCHANGED <<e_found, notEnv>>

\* The entries of hooks/ the search reads for a hook: those prefixed by the
\* hook's language.
Candidates(h) == {i \in EnvIds : e_dirs[i].exists /\ e_dirs[i].language = h.language}

\* The entries that the search can return for a hook.
Reusable(h) ==
    {i \in Candidates(h) :
        FromEnvPathOk(e_dirs[i].marker) /\ Matches(FromEnvPath(e_dirs[i].marker), h)}

\* The reuse search of a run (any process, at any time): a missing or
\* malformed marker is treated as absent; one matching entry is returned.
Search(h) ==
    /\ \/ \E i \in Reusable(h) :
              e_found' = [env |-> i,
                          skipped |-> {j \in Candidates(h) : ~FromEnvPathOk(e_dirs[j].marker)}]
       \/ /\ Reusable(h) = {}
          /\ e_found' = [env |-> 0,
                         skipped |-> {j \in Candidates(h) : ~FromEnvPathOk(e_dirs[j].marker)}]
    /\ UNCHANGED <<e_dirs, e_proc, notEnv>>

InitEnv ==
    /\ IdleUv
    /\ IdleInstall
    /\ IdleKey
    /\ IdleBuild
    /\ IdleDir
    /\ IdleConfig
    /\ IdleRepos
    /\ IdleFiles
    /\ IdleRun
    /\ IdleGuard
    /\ IdleCache
    /\ IdleExit
    /\ IdleEnv

NextEnv ==
    \/ \E i \in EnvIds, h \in Hooks : InstallInfoNew(i, h)
    \/ \E v \in Versions : WithLanguageVersion(v)
    \/ PersistEnvPath
    \/ \E order \in Orders(IF e_proc = NoProc THEN {} ELSE e_proc.info.dependencies),
          complete \in BOOLEAN : MarkAsInstalled(order, complete)
    \/ FinishInstall
    \/ Crash
    \/ FailInstall
    \/ \E h \in Hooks : Search(h)

SpecEnv == InitEnv /\ [][NextEnv]_vars

(***************************************************************************)
(* Claims about hook environments.                                         *)
(***************************************************************************)
\* The environment-reuse predicate as stated: the recorded language, the
\* recorded dependency set and the recorded version against the hook.
ReusePredicate(m, h) ==
    /\ m.content.language = h.language
    /\ {m.content.dependencies[i] : i \in 1..Len(m.content.dependencies)}
           = h.additional_dependencies
               \cup (IF h.repo.kind = "remote" THEN {h.repo.url \o "@" \o h.repo.rev} ELSE {})
    /\ \/ h.language_request.kind = "any"
       \/ h.language_request.version = m.content.language_version

\* The directories with a complete marker: the installed environments.
Installed == {i \in EnvIds : e_dirs[i].exists /\ e_dirs[i].marker.state = "written"}

\* C7: an installed environment is accepted for a hook (the reuse search
\* can return it) if and only if its recorded language equals the hook's,
\* its recorded dependency set equals the hook's env_key_dependencies and
\* its recorded version satisfies the hook's request.
C7_AcceptedIffRecordMatches ==
    \A h \in Hooks : \A i \in Installed :
        i \in Reusable(h) <=> ReusePredicate(e_dirs[i].marker, h)

\* A search returned the environment recorded for a remote hook with an
\* additional dependency.
C7_Witness ==
    /\ e_found.env # 0
    /\ e_found.env \in Installed
    /\ Len(e_dirs[e_found.env].marker.content.dependencies) = 2
    /\ e_dirs[e_found.env].marker.content.dependencies[1] = "u@r1"
    /\ e_dirs[e_found.env].marker.content.language_version = MaxVersion

RunOutcomes ==
    {"passed", "hook_failed", "files_modified", "no_hooks_selected",
     "config_error", "git_error", "interrupted"}

\* What `prek run` meets.
RunInputs == {[entry |-> "run", run |-> o] : o \in RunOutcomes}

\* What `prek hook-impl` meets: its arguments, the config file, the result
\* of Project::discover, the arguments git passed, whether there is anything
\* to run, and how the run it starts ends.
HookImplInputs ==
    {[entry |-> "hook-impl", config_given |-> cg, config_exists |-> ce,
      allow_missing_config |-> am, discover |-> dr, args_ok |-> ao,
      has_run_args |-> ra, run |-> o] :
        cg \in BOOLEAN, ce \in {"yes", "no", "io_error"}, am \in BOOLEAN,
        dr \in {"ok", "MissingConfigFile", "error"}, ao \in BOOLEAN,
        ra \in BOOLEAN, o \in RunOutcomes}

\* enum ExitStatus; "Err" stands for the Err(..) of Result<ExitStatus>.
Statuses == {"Success", "Failure", "Error", "Interrupted", "Err"}

\* cli::run: the status of a run.
Run(o) ==
    CASE o = "passed" -> "Success"
      [] o \in {"hook_failed", "files_modified"} -> "Failure"
      [] o = "no_hooks_selected" -> "Failure"
      [] o = "interrupted" -> "Interrupted"
      [] OTHER -> "Err"

\* cli::hook_impl
HookImpl(in) ==
    IF in.config_given /\ in.config_exists = "io_error" THEN "Err"
    ELSE IF in.config_given /\ in.config_exists = "no"
    THEN IF in.allow_missing_config THEN "Success" ELSE "Failure"
    ELSE IF ~in.config_given /\ in.discover = "MissingConfigFile"
    THEN IF in.allow_missing_config THEN "Success" ELSE "Failure"
    ELSE IF ~in.config_given /\ in.discover = "error" THEN "Err"
    ELSE IF ~in.args_ok THEN "Err"
    ELSE IF ~in.has_run_args THEN "Success"
    ELSE Run(in.run)

\* main: an Err is reported and becomes ExitStatus::Error.
MainStatus(r) == IF r = "Err" THEN "Error" ELSE r

\* Maps a failure to the code of success.
ExitCodeFailureAsSuccess(status) ==
    CASE status = "Success" -> 0
      [] status = "Failure" -> 0
      [] status = "Error" -> 2
      [] status = "Interrupted" -> 130

\* impl From<ExitStatus> for ExitCode
ExitCode(status) ==
    CASE status = "Success" -> 0
      [] status = "Failure" -> 1
      [] status = "Error" -> 2
      [] status = "Interrupted" -> 130

\* `prek run` runs to its status.
RunCmd ==
    /\ x_in.entry = "run"
    /\ x_status = "none"
    /\ x_status' = Run(x_in.run)
    /\ UNCHANGED <<x_in, x_code, notExit>>

\* `prek hook-impl` runs to its status.
HookImplCmd ==
    /\ x_in.entry = "hook-impl"
    /\ x_status = "none"
    /\ x_status' = HookImpl(x_in)
    /\ UNCHANGED <<x_in, x_code, notExit>>

\* The process exits with the code of the status.
ProcessExit ==
    /\ x_status # "none"
    /\ x_code = -1
    /\ x_code' = ExitCode(MainStatus(x_status))
    /\ UNCHANGED <<x_in, x_status, notExit>>

InitExit ==
    /\ IdleUv
    /\ IdleInstall
    /\ IdleKey
    /\ IdleBuild
    /\ IdleDir
    /\ IdleConfig
    /\ IdleRepos
    /\ IdleFiles
    /\ IdleRun
    /\ IdleGuard
    /\ IdleCache
    /\ IdleEnv
    /\ x_in \in RunInputs \cup HookImplInputs
    /\ x_status = "none"
    /\ x_code = -1

NextExit ==
    \/ RunCmd
    \/ HookImplCmd
    \/ ProcessExit

SpecExit == InitExit /\ [][NextExit]_vars

(***************************************************************************)
(* Claims about exit codes.                                                *)
(***************************************************************************)
Exited == x_code # -1

\* hook-impl found no config file: the one named, or any by discovery.
ConfigMissing ==
    /\ x_in.entry = "hook-impl"
    /\ \/ x_in.config_given /\ x_in.config_exists = "no"
       \/ ~x_in.config_given /\ x_in.discover = "MissingConfigFile"

\* hook-impl failed before it could start the run, for another reason than
\* a missing config file.
HookImplError ==
    /\ x_in.entry = "hook-impl"
    /\ ~ConfigMissing
    /\ \/ x_in.config_given /\ x_in.config_exists = "io_error"
       \/ ~x_in.config_given /\ x_in.discover = "error"
       \/ ~x_in.args_ok

\* hook-impl had nothing to run (for instance, nothing to push).
NothingToRun ==
    /\ x_in.entry = "hook-impl"
    /\ ~ConfigMissing /\ ~HookImplError
    /\ ~x_in.has_run_args

\* The hooks were run, or would have been: the outcome of cli::run counts.
RunReached ==
    \/ x_in.entry = "run"
    \/ x_in.entry = "hook-impl" /\ ~ConfigMissing /\ ~HookImplError /\ ~NothingToRun

HooksFailedOrModified == RunReached /\ x_in.run \in {"hook_failed", "files_modified"}

NoHooksSelected == RunReached /\ x_in.run = "no_hooks_selected"

Interrupted == RunReached /\ x_in.run = "interrupted"

OtherError == HookImplError \/ (RunReached /\ x_in.run \in {"config_error", "git_error"})

\* Every configuration or input error: a selector that leaves no hook and a
\* missing config file that is not allowed to be missing are among them.
ConfigOrInputError ==
    OtherError \/ NoHooksSelected \/ (ConfigMissing /\ ~x_in.allow_missing_config)

\* C10 as stated: 0 only on success, 1 only when hooks failed or files were
\* modified, 2 on every configuration or input error, 130 when interrupted.
C10_Original ==
    Exited =>
        /\ x_code = 0 => ~ConfigOrInputError /\ ~HooksFailedOrModified /\ ~Interrupted
        /\ x_code = 1 => HooksFailedOrModified
        /\ ConfigOrInputError => x_code = 2
        /\ Interrupted => x_code = 130

\* C10 (amended): 0 only on success (hooks passed, nothing to run, or a
\* config file missing that is allowed to be missing); 1 only when hooks
\* failed, files were modified, the selectors left no hook, or hook-impl
\* found no config file and that is not allowed; 2 on every other
\* configuration or input error; 130 when interrupted.
C10_ExitCodes ==
    Exited =>
        /\ x_code = 0 =>
              \/ RunReached /\ x_in.run = "passed"
              \/ NothingToRun
              \/ ConfigMissing /\ x_in.allow_missing_config
        /\ x_code = 1 =>
              \/ HooksFailedOrModified
              \/ NoHooksSelected
              \/ ConfigMissing /\ ~x_in.allow_missing_config
        /\ OtherError => x_code = 2
        /\ Interrupted => x_code = 130

\* `prek run` with a selector that matches no hook has exited with 1.
C10_Witness ==
    /\ x_in.entry = "run"
    /\ x_in.run = "no_hooks_selected"
    /\ x_code = 1

(***************************************************************************)
(* Claims about the scheduler.                                             *)
(***************************************************************************)
\* The priority a claim speaks of: the configured one, or the hook's ordinal.
ClaimedPriority(h) ==
    IF opt_priority[h] # NoPriority THEN opt_priority[h] ELSE Idx(h)

\* h is in a priority group that is scheduled after the group of g.
InLaterGroup(h, g) ==
    \/ ProjectOf(h) > ProjectOf(g)
    \/ ProjectOf(h) = ProjectOf(g) /\ ClaimedPriority(h) > ClaimedPriority(g)

InSameGroup(h, g) ==
    ProjectOf(h) = ProjectOf(g) /\ ClaimedPriority(h) = ClaimedPriority(g)

FailedFast(g) == hstate[g] = "failed" /\ (hook_fail_fast[g] \/ cli_fail_fast)

\* C1: once a hook has exited non-zero with its own fail_fast or the global
\* --fail-fast set, no hook of a later priority group has been or is ever
\* started: every such hook is still pending in every later state.
C1_FailFastStopsLaterGroups ==
    \A g, h \in HookIds :
        (FailedFast(g) /\ InLaterGroup(h, g)) => hstate[h] = "pending"

\* A fail-fast failure caused by --fail-fast alone has ended the run while a
\* hook of a later group of the same project is still pending.
C1_Witness ==
    \E g, h \in HookIds :
        /\ hstate[g] = "failed" /\ ~hook_fail_fast[g] /\ cli_fail_fast
        /\ ProjectOf(h) = ProjectOf(g)
        /\ ClaimedPriority(h) > ClaimedPriority(g)
        /\ hstate[h] = "pending"
        /\ rstate = "stopped"

\* C2: when the run has ended, every hook sharing the priority group of a
\* hook that failed with fail-fast has run to completion (Passed or Failed),
\* and the run exits with 1.
C2_SiblingsRunToCompletion ==
    RunEnded =>
        \A g \in HookIds :
            FailedFast(g) =>
                /\ \A h \in HookIds : InSameGroup(h, g) => Finished(h)
                /\ RunExit = 1

\* The scenario A(priority 5, fail_fast, exit 1), B(priority 5, exit 0),
\* C(priority 10): A Failed, B Passed, C not started, exit 1.
C2_Witness ==
    /\ split = NHooks
    /\ opt_priority[1] = 5 /\ opt_priority[2] = 5 /\ opt_priority[3] = 10
    /\ hook_fail_fast[1] /\ ~hook_fail_fast[2] /\ ~cli_fail_fast
    /\ hstate[1] = "failed" /\ hstate[2] = "passed" /\ hstate[3] = "pending"
    /\ rstate = "stopped"
    /\ RunExit = 1

\* C4: a hook that has been started has no unfinished hook of the same
\* project with a numerically lower priority.
C4_GroupsRunInAscendingPriority ==
    \A h, l \in HookIds :
        (/\ Started(h)
         /\ ProjectOf(l) = ProjectOf(h)
         /\ ClaimedPriority(l) < ClaimedPriority(h)) => Finished(l)

\* Two hooks of one group run concurrently after a lower-priority hook of
\* the same project, listed later in the configuration, has finished.
C4_Witness ==
    \E h, k, l \in HookIds :
        /\ h # k /\ hstate[h] = "running" /\ hstate[k] = "running"
        /\ ProjectOf(l) = ProjectOf(h) /\ ProjectOf(k) = ProjectOf(h)
        /\ l > h
        /\ ClaimedPriority(l) < ClaimedPriority(h)
        /\ Finished(l)

\* C11 as stated: a hook that changed a file is itself reported as having
\* modified files, and the run exits non-zero.
C11_Original ==
    RunEnded =>
        \A h \in HookIds :
            (Finished(h) /\ hook_modifies[h]) =>
                ReportedModifiedByThisHook(h) /\ RunExit # 0

\* C11 (amended): a hook that changed a file is reported as having modified
\* files when it is alone in its priority group, and otherwise its group is
\* reported as having modified files; either way the run exits non-zero,
\* even when every hook process exited with code 0.
C11_ModifiedFilesFailTheRun ==
    RunEnded =>
        \A h \in HookIds :
            (Finished(h) /\ hook_modifies[h]) =>
                /\ ReportedModifiedByThisHook(h) \/ ReportedModifiedByGroup(GroupKey(h))
                /\ RunExit # 0

\* The run ended with every hook process at exit code 0, one hook that
\* modified files alone in its group and another in a group of several.
C11_Witness ==
    /\ rstate = "finished"
    /\ \A h \in HookIds : hstate[h] = "passed"
    /\ \E h \in HookIds : hook_modifies[h] /\ ReportedModifiedByGroup(GroupKey(h))
    /\ RunExit = 1

C13_UnmergedPathsAbortBeforeStash ==
    g_unmerged =>
        /\ g_patch = "none" /\ ~g_printed
        /\ g_phase \in {"start", "ended"}
        /\ \A f \in Files : ~g_touched[f] /\ g_worktree[f] = "user"
        /\ g_phase = "ended" => g_cause = "unmerged"

\* A run with unmerged paths and unstaged changes has ended with the error.
C13_Witness ==
    /\ g_unmerged
    /\ \E f \in Files : g_dirty[f]
    /\ g_phase = "ended"
    /\ g_cause = "unmerged"

\* The projects of q are in non-increasing depth, ties in ascending
\* relative_path.
SortedByDepthThenPath(q) ==
    \A i, j \in 1..Len(q) :
        i < j =>
            \/ Len(q[i].relative_path) > Len(q[j].relative_path)
            \/ /\ Len(q[i].relative_path) = Len(q[j].relative_path)
               /\ PathLess(q[i].relative_path, q[j].relative_path)

\* The project at position i (counted from zero) carries index i.
DenselyIndexed(q) == \A i \in 1..Len(q) : q[i].idx = i - 1

\* q is p with some projects left out: same order, same indices.
IsSubSeqOf(q, p) ==
    /\ \A i \in 1..Len(q) : \E k \in 1..Len(p) : p[k] = q[i]
    /\ \A i, j \in 1..Len(q) : i < j => q[i].idx < q[j].idx

\* C14 as stated, for both lists a successful discovery returns (all
\* projects, and the projects the selectors keep).
C14_Original ==
    d_result.outcome = "ok" =>
        /\ SortedByDepthThenPath(d_result.all) /\ DenselyIndexed(d_result.all)
        /\ SortedByDepthThenPath(d_result.projects) /\ DenselyIndexed(d_result.projects)

\* C14 (amended): the list of all projects is sorted by non-increasing depth
\* with ties broken by ascending relative_path and the project at position i
\* carries index i; the list of selected projects is sorted the same way and
\* each of its projects keeps the index it has in the list of all projects.
C14_SortedAndIndexed ==
    d_result.outcome = "ok" =>
        /\ SortedByDepthThenPath(d_result.all) /\ DenselyIndexed(d_result.all)
        /\ SortedByDepthThenPath(d_result.projects)
        /\ IsSubSeqOf(d_result.projects, d_result.all)

\* A discovery served from the cache returned three projects, two of them at
\* the same depth.
C14_Witness ==
    /\ d_result.outcome = "ok"
    /\ ~d_result.fresh
    /\ Len(d_result.all) = 3
    /\ Len(d_result.all[1].relative_path) = Len(d_result.all[2].relative_path)

\* C20: when selectors are given and discovery, from the cache or from a fresh
\* walk, finds projects none of which matches a selector, it fails with
\* MissingConfigFile: no discover step with such selectors ends otherwise.
C20_NoSelectedProjectIsMissingConfigFile ==
    [][\A sel \in Selections, refresh \in BOOLEAN, dry \in BOOLEAN :
          (/\ DiscoverStep
           /\ sel.given
           /\ d_result'.outcome # "ConfigError"
           /\ \A i \in 1..Len(d_result'.all) :
                 ~MatchesPath(sel, d_result'.all[i].relative_path)
           /\ d_result'.outcome # "MissingConfigFile")
          => ~Discover(sel, refresh, dry)]_vars

\* A discovery served from the cache found two projects, no selector matched
\* either, and it failed with MissingConfigFile.
C20_Witness ==
    /\ d_result.outcome = "MissingConfigFile"
    /\ ~d_result.fresh
    /\ Len(d_result.all) = 2
    /\ d_result.projects = <<>>

(***************************************************************************)
(* Files given to the hooks of each project (spec 4.4, Per-hook            *)
(* filtering): the projects are visited in discovery order, deepest first; *)
(* a project sees the files under its directory, and an orphan project     *)
(* takes them away from the projects above it.                             *)
(***************************************************************************)
\* One tracked file in each directory, named by the directory it is in.
TrackedFiles == Dirs

\* Path::starts_with: the file in directory f is under directory p.
StartsWith(f, p) == Len(p) <= Len(f) /\ SubSeq(f, 1, Len(p)) = p

\* Every file is taken to be inside every project.
InsideAnyProject(f, p) == TRUE

\* "f is inside the project that owns h (path prefix match)".
InsideProject(f, p) == StartsWith(f, p)

\* Files are consumed only by an orphan project whose hooks run.
ConsumedWhenRun(p, inside) ==
    IF p \in f_orphan /\ p \notin f_skipped /\ p \notin f_nofiles THEN inside ELSE {}

\* The files an orphan project consumes: every file under its directory that
\* reached it, whether or not its hooks run or its patterns match.
ConsumedBy(p, inside) == IF p \in f_orphan THEN inside ELSE {}

\* The projects in the order they are run.
RunOrder == SortProjects(f_projects)

\* The run-wide file set is collected (--all-files, --files, staged files).
CollectFiles(files) ==
    /\ f_phase = "config"
    /\ f_files' = files
    /\ f_phase' = "running"
    /\ UNCHANGED <<f_projects, f_orphan, f_skipped, f_nofiles, f_pos, f_consumed,
                   f_passed, notFiles>>

\* The next project is given its files.
FilterProject ==
    /\ f_phase = "running"
    /\ f_pos < Len(RunOrder)
    /\ LET p == RunOrder[f_pos + 1]
           inside == {f \in f_files \ f_consumed : InsideProject(f, p)}
       IN  /\ f_passed' = [f_passed EXCEPT ![p] =
                              IF p \in f_skipped \/ p \in f_nofiles THEN {} ELSE inside]
           /\ f_consumed' = f_consumed \cup ConsumedBy(p, inside)
    /\ f_pos' = f_pos + 1
    /\ UNCHANGED <<f_projects, f_orphan, f_skipped, f_nofiles, f_files, f_phase, notFiles>>

\* Every project has been given its files.
FinishFiltering ==
    /\ f_phase = "running"
    /\ f_pos = Len(RunOrder)
    /\ f_phase' = "done"
    /\ UNCHANGED <<f_projects, f_orphan, f_skipped, f_nofiles, f_files, f_pos,
                   f_consumed, f_passed, notFiles>>

InitFiles ==
    /\ IdleUv
    /\ IdleInstall
    /\ IdleKey
    /\ IdleBuild
    /\ IdleDir
    /\ IdleConfig
    /\ IdleRepos
    /\ IdleRun
    /\ IdleGuard
    /\ IdleCache
    /\ IdleEnv
    /\ IdleExit
    /\ f_projects \in {S \cup {Root} : S \in SUBSET (Dirs \ {Root})}
    /\ f_orphan \in SUBSET f_projects
    /\ f_skipped \in SUBSET f_projects
    /\ f_nofiles \in {{}} \cup {{p} : p \in f_projects}
    /\ f_files = {}
    /\ f_phase = "config"
    /\ f_pos = 0
    /\ f_consumed = {}
    /\ f_passed = [d \in Dirs |-> {}]

NextFiles ==
    \/ \E files \in SUBSET TrackedFiles : CollectFiles(files)
    \/ FilterProject
    \/ FinishFiltering

SpecFiles == InitFiles /\ [][NextFiles]_vars

\* C15: a file inside an orphan project is never passed to a hook of a project
\* above the orphan project, whether or not the orphan project's hooks are
\* selected and whether or not its files pattern matches anything.
C15_OrphanFilesNotPassedToAncestors ==
    \A o \in f_orphan, a \in f_projects, f \in TrackedFiles :
        IsAncestor(a, o) /\ StartsWith(f, o) => f \notin f_passed[a]

\* The run is over; one orphan project had its hooks deselected and another
\* had a files pattern matching nothing, both held a file of the run, and the
\* root project's hooks were still given a file.
C15_Witness ==
    /\ f_phase = "done"
    /\ f_passed[Root] # {}
    /\ \E o1, o2 \in f_orphan :
          /\ o1 \in f_skipped /\ o1 \in f_files /\ o1 # Root
          /\ o2 \in f_nofiles /\ o2 \notin f_skipped /\ o2 \in f_files /\ o2 # Root

\* C16: every file passed to a hook lies inside the directory of the project
\* that owns the hook, so a file of another project in the run-wide set is
\* never passed to it.
C16_PassedFilesAreInsideProject ==
    \A p \in Dirs : \A f \in f_passed[p] : StartsWith(f, p)

\* The run is over; the run-wide set held files of two projects neither of
\* which is inside the other, and each project's hooks got its own file only.
C16_Witness ==
    /\ f_phase = "done"
    /\ \E p, q \in f_projects :
          /\ ~StartsWith(p, q) /\ ~StartsWith(q, p)
          /\ {p, q} \subseteq f_files
          /\ p \in f_passed[p] /\ q \notin f_passed[p]
          /\ q \in f_passed[q]

(***************************************************************************)
(* Workspace::init_repos: the remote entries of all selected projects are  *)
(* deduplicated, each remaining one is cloned by a concurrent task, and    *)
(* every entry of every project is then resolved through the map the       *)
(* tasks filled.                                                           *)
(***************************************************************************)
Urls == {"u1", "u2"}

Revs == {"v1", "v2"}

\* Two different hook lists a remote entry may carry.
HookLists == {"h1", "h2"}

\* config::Repo: a remote entry, or a local one (meta and builtin entries
\* are resolved the same way as local ones).
RepoEntries ==
    [kind : {"remote"}, repo : Urls, rev : Revs, hooks : HookLists]
        \cup [kind : {"local"}, repo : {"local"}, rev : {""}, hooks : HookLists]

\* buffer_unordered(5): the number of clone tasks in flight.
BufferUnordered == 5

\* Equality of all fields, as #[derive(PartialEq)] would give.
RemoteRepoEqDerived(a, b) == a = b

\* impl PartialEq for RemoteRepo (and Hash, over the same two fields).
RemoteRepoEq(a, b) == a.repo = b.repo /\ a.rev = b.rev

\* The filter_map over `seen`: the remote entries of q, each kept where
\* seen.insert(repo) returns true.
RECURSIVE Deduplicate(_, _)
Deduplicate(q, seen) ==
    IF q = <<>> THEN <<>>
    ELSE IF Head(q).kind = "remote" /\ ~\E e \in seen : RemoteRepoEq(e, Head(q))
         THEN <<Head(q)>> \o Deduplicate(Tail(q), seen \cup {Head(q)})
         ELSE Deduplicate(Tail(q), seen)

\* FxHashMap::insert: the entry under an equal key is replaced.
MapInsert(m, key, clone) ==
    {e \in m : ~RemoteRepoEq(e.key, key)} \cup {[key |-> key, clone |-> clone]}

\* FxHashMap::get: 0 when no key is equal (`expect("repo not found")`).
MapGet(m, key) ==
    IF \E e \in m : RemoteRepoEq(e.key, key)
    THEN (CHOOSE e \in m : RemoteRepoEq(e.key, key)).clone
    ELSE 0

\* The project an entry belongs to.
EntryProject(i) == IF i <= r_split THEN 1 ELSE 2

TaskIds == 1..Len(r_tasks)

\* The stream of clone tasks is built from the entries of all projects.
PrepareRemotes ==
    /\ r_phase = "config"
    /\ r_tasks' = Deduplicate(r_refs, {})
    /\ r_tstate' = [i \in 1..Len(Deduplicate(r_refs, {})) |-> "queued"]
    /\ r_phase' = "cloning"
    /\ UNCHANGED <<r_refs, r_split, r_map, r_resolved, r_pos, notRepos>>

\* The stream starts the next task: store.clone_repo is called. The clone that
\* call makes is named by the task's number.
StartClone ==
    /\ r_phase = "cloning"
    /\ Cardinality({i \in TaskIds : r_tstate[i] = "running"}) < BufferUnordered
    /\ \E i \in TaskIds :
          /\ r_tstate[i] = "queued"
          /\ \A j \in TaskIds : j < i => r_tstate[j] # "queued"
          /\ r_tstate' = [r_tstate EXCEPT ![i] = "running"]
    /\ UNCHANGED <<r_refs, r_split, r_tasks, r_map, r_resolved, r_pos, r_phase, notRepos>>

\* A clone task completes: its Repo goes into remote_repos.
FinishClone(i) ==
    /\ r_phase = "cloning"
    /\ r_tstate[i] = "running"
    /\ r_tstate' = [r_tstate EXCEPT ![i] = "done"]
    /\ r_map' = MapInsert(r_map, r_tasks[i], i)
    /\ UNCHANGED <<r_refs, r_split, r_tasks, r_resolved, r_pos, r_phase, notRepos>>

\* A clone task fails: `result?` returns the error and init_repos ends.
FailClone(i) ==
    /\ r_phase = "cloning"
    /\ r_tstate[i] = "running"
    /\ r_phase' = "failed"
    /\ UNCHANGED <<r_refs, r_split, r_tasks, r_tstate, r_map, r_resolved, r_pos, notRepos>>

\* All tasks are done: the loop over the projects starts.
AllCloned ==
    /\ r_phase = "cloning"
    /\ \A i \in TaskIds : r_tstate[i] = "done"
    /\ r_phase' = "resolving"
    /\ UNCHANGED <<r_refs, r_split, r_tasks, r_tstate, r_map, r_resolved, r_pos, notRepos>>

\* The repos of the next project: a remote entry gets the Repo found in
\* remote_repos, any other entry a Repo of its own (named by minus its
\* position).
ResolveProject ==
    /\ r_phase = "resolving"
    /\ r_pos < 2
    /\ r_resolved' = [i \in 1..Len(r_refs) |->
                        IF EntryProject(i) # r_pos + 1 THEN r_resolved[i]
                        ELSE IF r_refs[i].kind = "remote" THEN MapGet(r_map, r_refs[i])
                        ELSE 0 - i]
    /\ r_pos' = r_pos + 1
    /\ r_phase' = IF r_pos + 1 = 2 THEN "done" ELSE "resolving"
    /\ UNCHANGED <<r_refs, r_split, r_tasks, r_tstate, r_map, notRepos>>

InitRepos ==
    /\ IdleUv
    /\ IdleInstall
    /\ IdleKey
    /\ IdleBuild
    /\ IdleDir
    /\ IdleConfig
    /\ IdleRun
    /\ IdleGuard
    /\ IdleCache
    /\ IdleEnv
    /\ IdleExit
    /\ IdleFiles
    /\ r_refs \in [1..MaxRefs -> RepoEntries]
    /\ r_split \in 1..MaxRefs
    /\ r_tasks = <<>>
    /\ r_tstate = <<>>
    /\ r_map = {}
    /\ r_resolved = [i \in 1..MaxRefs |-> 0]
    /\ r_pos = 0
    /\ r_phase = "config"

NextRepos ==
    \/ PrepareRemotes
    \/ StartClone
    \/ \E i \in TaskIds : FinishClone(i)
    \/ \E i \in TaskIds : FailClone(i)
    \/ AllCloned
    \/ ResolveProject

SpecRepos == InitRepos /\ [][NextRepos]_vars

\* The number of clone_repo calls made so far for url and rev.
ClonesOf(url, rev) ==
    Cardinality({i \in TaskIds :
                    /\ r_tstate[i] # "queued"
                    /\ r_tasks[i].repo = url /\ r_tasks[i].rev = rev})

\* C17: within one run each distinct remote (url, rev) pair is cloned at most
\* once, however many entries and projects reference it, and once the repos
\* are resolved all those entries hold the same clone.
C17_OneClonePerUrlRev ==
    /\ \A url \in Urls, rev \in Revs : ClonesOf(url, rev) <= 1
    /\ r_phase = "done" =>
          \A i, j \in 1..Len(r_refs) :
              /\ r_refs[i].kind = "remote" /\ r_refs[j].kind = "remote"
              /\ r_refs[i].repo = r_refs[j].repo /\ r_refs[i].rev = r_refs[j].rev
              => r_resolved[i] = r_resolved[j] /\ r_resolved[i] > 0

\* The repos are resolved; two projects reference the same (url, rev) with
\* different hook lists and hold the same clone, and another remote entry
\* holds a different clone.
C17_Witness ==
    /\ r_phase = "done"
    /\ \E i, j, k \in 1..Len(r_refs) :
          /\ EntryProject(i) # EntryProject(j)
          /\ r_refs[i].kind = "remote" /\ r_refs[j].kind = "remote"
          /\ r_refs[i].repo = r_refs[j].repo /\ r_refs[i].rev = r_refs[j].rev
          /\ r_refs[i].hooks # r_refs[j].hooks
          /\ r_resolved[i] = r_resolved[j] /\ r_resolved[i] > 0
          /\ r_refs[k].kind = "remote" /\ r_resolved[k] > 0
          /\ r_resolved[k] # r_resolved[i]

(***************************************************************************)
(* Reuse of an environment by hooks whose configs list their               *)
(* additional_dependencies in different orders (HookBuilder::build).       *)
(***************************************************************************)
\* The additional_dependencies lists of the hook configs.
DependencyLists == {<<"X", "Y">>, <<"Y", "X">>, <<"X", "Y", "Z">>}

\* Hook configs: a local python hook without language_version, with one of
\* the dependency lists.
HookConfigs ==
    {[language |-> "python", repo |-> LocalRepo, additional_dependencies |-> d,
      language_request |-> [kind |-> "any", version |-> 0]] : d \in DependencyLists}

\* Only the first listed dependency is kept.
BuildFirstDependency(cfg) ==
    [cfg EXCEPT !.additional_dependencies = {cfg.additional_dependencies[1]}]

\* HookBuilder::build: additional_dependencies.into_iter().collect::<FxHashSet<_>>().
Build(cfg) ==
    [cfg EXCEPT !.additional_dependencies =
        {cfg.additional_dependencies[i] : i \in 1..Len(cfg.additional_dependencies)}]

\* The reuse search for the hook built from a config.
SearchFor(cfg) ==
    /\ \/ \E i \in Reusable(Build(cfg)) :
              e_found' = [env |-> i,
                          skipped |-> {j \in Candidates(Build(cfg)) :
                                          ~FromEnvPathOk(e_dirs[j].marker)},
                          config |-> cfg]
       \/ /\ Reusable(Build(cfg)) = {}
          /\ e_found' = [env |-> 0,
                         skipped |-> {j \in Candidates(Build(cfg)) :
                                         ~FromEnvPathOk(e_dirs[j].marker)},
                         config |-> cfg]
    /\ UNCHANGED <<e_dirs, e_proc, notEnv>>

NextReuse ==
    \/ \E i \in EnvIds, cfg \in HookConfigs : InstallInfoNew(i, Build(cfg))
    \/ \E v \in Versions : WithLanguageVersion(v)
    \/ PersistEnvPath
    \/ \E order \in Orders(IF e_proc = NoProc THEN {} ELSE e_proc.info.dependencies),
          complete \in BOOLEAN : MarkAsInstalled(order, complete)
    \/ FinishInstall
    \/ Crash
    \/ FailInstall
    \/ \E cfg \in HookConfigs : SearchFor(cfg)

SpecReuse == InitEnv /\ [][NextReuse]_vars

\* Two lists hold the same dependencies, in any order.
SameDependencies(a, b) ==
    {a[i] : i \in 1..Len(a)} = {b[i] : i \in 1..Len(b)}

\* C18: whether an installed environment is reused for a hook does not depend
\* on the order in which additional_dependencies are listed: two hooks that
\* differ only in that order are offered the same environments, and two hooks
\* listing different dependencies are never offered the same environment.
C18_ReuseIgnoresDependencyOrder ==
    \A i \in Installed : \A c1, c2 \in HookConfigs :
        IF SameDependencies(c1.additional_dependencies, c2.additional_dependencies)
        THEN i \in Reusable(Build(c1)) <=> i \in Reusable(Build(c2))
        ELSE ~(i \in Reusable(Build(c1)) /\ i \in Reusable(Build(c2)))

\* A search for the hook listing [Y, X] returned an environment whose marker
\* lists X then Y, and that environment cannot be returned to the hook listing
\* [X, Y, Z].
C18_Witness ==
    /\ e_found # NoSearch
    /\ e_found.config.additional_dependencies = <<"Y", "X">>
    /\ e_found.env \in Installed
    /\ e_dirs[e_found.env].marker.content.dependencies = <<"X", "Y">>
    /\ \A c \in HookConfigs :
          c.additional_dependencies = <<"X", "Y", "Z">> => Reusable(Build(c)) = {}

(***************************************************************************)
(* read_config (config.rs): the entries under repos: are deserialized by *)
(* impl Deserialize for Repo; keys no struct field takes are kept in       *)
(* _unused_keys and reported in a warning.                                 *)
(***************************************************************************)
\* What the repo key of an entry holds: a reserved word, a URL, nothing
\* (the key is missing) or a value that is not a string.
RepoValues == {"local", "meta", "builtin", "u1", "<missing>", "<number>"}

\* An entry as written: its repo key, whether it has a rev key, whether
\* its hooks deserialize for its kind of repo, whether it has a key foo.
WireEntries ==
    [repo : RepoValues, rev : BOOLEAN, hooks : {"valid", "invalid"}, foo : BOOLEAN]

\* The keys of an entry besides repo and hooks.
ExtraKeys(w) ==
    (IF w.rev THEN {"rev"} ELSE {}) \cup (IF w.foo THEN {"foo"} ELSE {})

\* The variant an entry deserializes to.
VariantOf(w) ==
    CASE w.repo = "local" -> "Local"
      [] w.repo = "meta" -> "Meta"
      [] w.repo = "builtin" -> "Builtin"
      [] OTHER -> "Remote"

\* Keys outside the struct's fields are dropped.
UnusedKeysDropped(w, fields) == {}

\* #[serde(flatten)] _unused_keys: the keys that no field of the struct takes.
UnusedKeys(w, fields) == ExtraKeys(w) \ fields

\* impl Deserialize for Repo: the Repo, or the error.
DeserializeRepo(w) ==
    IF w.repo = "<missing>" THEN [ok |-> FALSE, error |-> "missing field repo"]
    ELSE IF w.repo = "<number>" THEN [ok |-> FALSE, error |-> "repo must be a string"]
    ELSE IF VariantOf(w) = "Remote"
    THEN IF ~w.rev THEN [ok |-> FALSE, error |-> "Invalid remote repo: missing field rev"]
         ELSE IF w.hooks = "invalid" THEN [ok |-> FALSE, error |-> "Invalid remote repo"]
         ELSE [ok |-> TRUE, variant |-> "Remote", has_rev |-> TRUE,
               unused_keys |-> UnusedKeys(w, {"rev"})]
    ELSE IF w.hooks = "invalid"
         THEN [ok |-> FALSE, error |-> "Invalid " \o w.repo \o " repo"]
         ELSE [ok |-> TRUE, variant |-> VariantOf(w), has_rev |-> FALSE,
               unused_keys |-> UnusedKeys(w, {})]

\* Position of the first entry that fails to deserialize, 0 if none does.
FirstError(q) ==
    IF \E i \in 1..Len(q) : ~DeserializeRepo(q[i]).ok
    THEN CHOOSE i \in 1..Len(q) :
            /\ ~DeserializeRepo(q[i]).ok
            /\ \A j \in 1..(i - 1) : DeserializeRepo(q[j]).ok
    ELSE 0

\* collect_unused_paths: repos[i].key for every unused key of every repo.
CollectUnusedPaths(cfg) ==
    {p \in (1..Len(cfg)) \X {"rev", "foo"} : p[2] \in cfg[p[1]].unused_keys}

\* load_config: every entry deserializes.
LoadConfig ==
    /\ c_phase = "file"
    /\ FirstError(c_wire) = 0
    /\ c_config' = [i \in 1..Len(c_wire) |-> DeserializeRepo(c_wire[i])]
    /\ c_phase' = "loaded"
    /\ UNCHANGED <<c_wire, c_error, c_warned, notConfig>>

\* load_config: an entry fails to deserialize, the error is returned.
LoadConfigFails ==
    /\ c_phase = "file"
    /\ FirstError(c_wire) # 0
    /\ c_error' = DeserializeRepo(c_wire[FirstError(c_wire)]).error
    /\ c_phase' = "error"
    /\ UNCHANGED <<c_wire, c_config, c_warned, notConfig>>

\* read_config after load_config: warn_unused_paths; the config is returned.
WarnUnusedPaths ==
    /\ c_phase = "loaded"
    /\ c_warned' = CollectUnusedPaths(c_config)
    /\ c_phase' = "read"
    /\ UNCHANGED <<c_wire, c_config, c_error, notConfig>>

InitConfig ==
    /\ IdleUv
    /\ IdleInstall
    /\ IdleKey
    /\ IdleBuild
    /\ IdleDir
    /\ IdleRun
    /\ IdleGuard
    /\ IdleCache
    /\ IdleEnv
    /\ IdleExit
    /\ IdleFiles
    /\ IdleRepos
    /\ c_wire \in [1..MaxRepos -> WireEntries]
    /\ c_config = <<>>
    /\ c_error = "none"
    /\ c_warned = {}
    /\ c_phase = "file"

NextConfig ==
    \/ LoadConfig
    \/ LoadConfigFails
    \/ WarnUnusedPaths

SpecConfig == InitConfig /\ [][NextConfig]_vars

\* The entries that are local, meta or builtin and carry a rev key.
NonRemoteWithRev ==
    {i \in 1..Len(c_wire) : c_wire[i].repo \in {"local", "meta", "builtin"} /\ c_wire[i].rev}

\* An entry is at fault for something other than a rev key it carries.
OtherwiseInvalid(w) ==
    \/ w.repo \in {"<missing>", "<number>"}
    \/ w.hooks = "invalid"
    \/ VariantOf(w) = "Remote" /\ ~w.rev

ConfigNames == <<"prek.toml", ".pre-commit-config.yaml", ".pre-commit-config.yml">>

NameSet == {ConfigNames[i] : i \in 1..Len(ConfigNames)}

\* Position of a name in ConfigNames.
RankOf(n) == CHOOSE i \in 1..Len(ConfigNames) : ConfigNames[i] = n

\* The present file that comes last in the order.
LastPresent(present) ==
    CHOOSE n \in present : \A m \in present : RankOf(m) <= RankOf(n)

\* present.first() of from_directory: the present file that comes first.
FirstPresent(present) ==
    CHOOSE n \in present : \A m \in present : RankOf(n) <= RankOf(m)

\* Project::from_directory: what it returns and what it warns about.
FromDirectory(present, broken) ==
    IF present = {}
    THEN [outcome |-> "MissingConfigFile", config |-> "none", warned |-> {}]
    ELSE [outcome |-> IF FirstPresent(present) \in broken THEN "ConfigError" ELSE "project",
          config |-> FirstPresent(present),
          warned |-> IF Cardinality(present) > 1 THEN present ELSE {}]

\* WorkspaceCache::load returns the stored cache: it is valid, and its file
\* still exists.
CacheServes(refresh) ==
    ~refresh /\ a_cache # "none" /\ ~a_stale /\ a_cache \in a_present

\* A config file is written: created, or its content replaced.
WriteFile(n, ok) ==
    /\ a_present' = a_present \cup {n}
    /\ a_broken' = IF ok THEN a_broken \ {n} ELSE a_broken \cup {n}
    /\ a_stale' = (a_stale \/ (n = a_cache /\ n \in a_present))
    /\ UNCHANGED <<a_cache, a_result, notDir>>

\* A config file is removed.
RemoveFile(n) ==
    /\ n \in a_present
    /\ a_present' = a_present \ {n}
    /\ a_broken' = a_broken \ {n}
    /\ UNCHANGED <<a_cache, a_stale, a_result, notDir>>

\* More than MAX_CACHE_AGE passes.
ExpireCache ==
    /\ a_cache # "none"
    /\ ~a_stale
    /\ a_stale' = TRUE
    /\ UNCHANGED <<a_present, a_broken, a_cache, a_result, notDir>>

\* Workspace::discover for a workspace whose only config directory is this
\* one: the cached file is loaded with from_config_file; if there is no valid
\* cache, or that file fails to load, the directory is examined with
\* from_directory and the cache rewritten on success.
DiscoverDirectory(refresh) ==
    LET served == CacheServes(refresh) /\ a_cache \notin a_broken
        res == FromDirectory(a_present, a_broken)
    IN  /\ a_result' =
              IF served
              THEN [outcome |-> "project", config |-> a_cache, warned |-> {},
                    fresh |-> FALSE, present |-> a_present, broken |-> a_broken]
              ELSE [outcome |-> res.outcome, config |-> res.config, warned |-> res.warned,
                    fresh |-> TRUE, present |-> a_present, broken |-> a_broken]
        /\ a_cache' = IF served THEN a_cache
                      ELSE IF res.outcome = "project" THEN res.config
                      ELSE IF ~refresh /\ a_cache # "none" /\ ~CacheServes(refresh) THEN "none"
                      ELSE a_cache
        /\ a_stale' = IF served THEN a_stale
                      ELSE IF res.outcome = "project" THEN FALSE
                      ELSE IF ~refresh /\ a_cache # "none" /\ ~CacheServes(refresh) THEN FALSE
                      ELSE a_stale
        /\ UNCHANGED <<a_present, a_broken, notDir>>

InitDir ==
    /\ IdleUv
    /\ IdleInstall
    /\ IdleKey
    /\ IdleBuild
    /\ IdleRun
    /\ IdleGuard
    /\ IdleCache
    /\ IdleEnv
    /\ IdleExit
    /\ IdleFiles
    /\ IdleRepos
    /\ IdleConfig
    /\ a_present \in SUBSET NameSet
    /\ a_broken \in SUBSET a_present
    /\ a_cache = "none"
    /\ a_stale = FALSE
    /\ a_result = NoProject

NextDir ==
    \/ \E n \in NameSet, ok \in BOOLEAN : WriteFile(n, ok)
    \/ \E n \in NameSet : RemoveFile(n)
    \/ ExpireCache
    \/ \E refresh \in BOOLEAN : DiscoverDirectory(refresh)

SpecDir == InitDir /\ [][NextDir]_vars

\* n is, of the files present, the one named first in the order prek.toml,
\* .pre-commit-config.yaml, .pre-commit-config.yml.
IsFirstInOrder(n, present) ==
    /\ n \in present
    /\ n = "prek.toml"
       \/ (n = ".pre-commit-config.yaml" /\ "prek.toml" \notin present)
       \/ (n = ".pre-commit-config.yml" /\ present = {n})

\* C21 as stated: a directory examined while it held more than one config
\* file gave one project, from the first file in the order, and a warning
\* that names the other files.
C21_Original ==
    (a_result.outcome # "none" /\ Cardinality(a_result.present) > 1) =>
        /\ a_result.outcome = "project"
        /\ IsFirstInOrder(a_result.config, a_result.present)
        /\ a_result.present \ {a_result.config} \subseteq a_result.warned

\* C21 (amended): when a fresh discovery examines a directory holding more
\* than one config file, only the first file in the order is tried: the
\* warning names every file found, the project uses the first file if it
\* loads, and no project is created if it does not.  A discovery answered from
\* the cache creates the project from the file the cache records, whichever
\* files the directory holds by then, without a warning.  No directory gives
\* more than one project.
C21_FirstPresentWinsOnFreshDiscovery ==
    (a_result.outcome # "none" /\ Cardinality(a_result.present) > 1) =>
        IF a_result.fresh
        THEN /\ a_result.warned = a_result.present
             /\ IsFirstInOrder(a_result.config, a_result.present)
             /\ a_result.outcome = "project" <=> a_result.config \notin a_result.broken
        ELSE /\ a_result.outcome = "project"
             /\ a_result.config \in a_result.present \ a_result.broken
             /\ a_result.warned = {}

\* A fresh discovery of a directory holding all three files used prek.toml
\* and warned about the three of them.
C21_Witness ==
    /\ a_result.fresh
    /\ a_result.present = NameSet
    /\ a_result.outcome = "project"
    /\ a_result.config = "prek.toml"
    /\ a_result.warned = NameSet
    /\ a_cache = "prek.toml"


(***************************************************************************)
(* Default priorities (hook.rs HookBuilder::build, workspace.rs            *)
(* Project::internal_init_hooks).                                          *)
(***************************************************************************)

\* Explicit priorities that can coincide with the ordinal of another hook.
OrderPriorities == {1, 5}

\* Runs without fail-fast and without modified files, over every way of
\* leaving the priority out or setting it.
InitOrder ==
    /\ IdleUv
    /\ IdleInstall
    /\ IdleKey
    /\ IdleBuild
    /\ IdleDir
    /\ IdleConfig
    /\ IdleRepos
    /\ IdleFiles
    /\ IdleGuard
    /\ IdleCache
    /\ IdleEnv
    /\ IdleExit
    /\ split \in 0..NHooks
    /\ opt_priority \in [HookIds -> OrderPriorities \cup {NoPriority}]
    /\ hook_fail_fast = [h \in HookIds |-> FALSE]
    /\ cli_fail_fast = FALSE
    /\ hstate = [h \in HookIds |-> "pending"]
    /\ done_upto = -1
    /\ rstate = "running"
    /\ hook_modifies = [h \in HookIds |-> FALSE]
    /\ tree_changed = FALSE
    /\ mod_groups = {}

SpecOrder == InitOrder /\ [][NextRun]_vars

\* hooks.len() at the time the hook is built: the number of hooks of the same
\* project that come before it in the config, over all repo entries.
PositionInProject(h) ==
    Cardinality({x \in HookIds : ProjectOf(x) = ProjectOf(h) /\ x < h})

Implicit(h) == opt_priority[h] = NoPriority

\* C22: a hook with an explicit priority keeps it, a hook without one gets its
\* zero-based position among the hooks of its project, and of two hooks of one
\* project without explicit priority the later one in the config has not
\* started before the earlier one has finished.
C22_DefaultPriorityIsPositionInProject ==
    /\ \A h \in HookIds :
          Priority(h) = IF Implicit(h) THEN PositionInProject(h)
                        ELSE opt_priority[h]
    /\ \A h1, h2 \in HookIds :
          (/\ h1 < h2
           /\ ProjectOf(h1) = ProjectOf(h2)
           /\ Implicit(h1) /\ Implicit(h2)
           /\ hstate[h2] # "pending")
          => Finished(h1)

\* The second hook of a project, without priority, runs after the first has
\* finished, together with a third hook whose explicit priority equals the
\* second hook's position.
C22_Witness ==
    \E h1, h2, h3 \in HookIds :
        /\ h1 < h2 /\ h2 < h3
        /\ ProjectOf(h1) = ProjectOf(h2) /\ ProjectOf(h2) = ProjectOf(h3)
        /\ Implicit(h1) /\ Implicit(h2)
        /\ opt_priority[h3] = PositionInProject(h2)
        /\ Finished(h1)
        /\ hstate[h2] = "running"
        /\ hstate[h3] = "running"


(***************************************************************************)
(* Building a hook (hook.rs HookBuilder): update, combine, check,          *)
(* fill_in_defaults, build.                                                *)
(***************************************************************************)

\* What a language supports: supports_install_env, supports_dependency and
\* supports_language_version of Language (the language plugins are not part
\* of the sources modelled here, so every combination is admitted).
Capabilities ==
    [install_env : BOOLEAN, dependency : BOOLEAN, language_version : BOOLEAN]

\* language_version strings: the default, a version, one that does not parse.
VersionStrings == {"default", "3.12", "bad"}

\* additional_dependencies lists.
DependencyVecs == {<<>>, <<"X">>, <<"X", "Y">>}

HookOptionValues ==
    [language_version : VersionStrings \cup {"none"},
     has_dependencies : BOOLEAN,
     additional_dependencies : DependencyVecs]

\* Option<Vec<String>>: None carries no list.
WellFormedOptions ==
    {o \in HookOptionValues : ~o.has_dependencies => o.additional_dependencies = <<>>}

\* HookOptions::update: a field of the override that is Some replaces the
\* field of the manifest hook.
UpdateOptions(self, other) ==
    [language_version |->
         IF other.language_version # "none" THEN other.language_version
         ELSE self.language_version,
     has_dependencies |-> self.has_dependencies \/ other.has_dependencies,
     additional_dependencies |->
         IF other.has_dependencies THEN other.additional_dependencies
         ELSE self.additional_dependencies]

\* HookBuilder::combine: a hook without language_version takes the project's
\* default_language_version for its language.
CombineOptions(o, default) ==
    IF o.language_version = "none"
    THEN [o EXCEPT !.language_version = default]
    ELSE o

CheckDependenciesOnly(caps, o) ==
    IF o.additional_dependencies # <<>> /\ ~caps.install_env THEN "NoInstallEnv"
    ELSE IF o.additional_dependencies # <<>> /\ ~caps.dependency THEN "NoDependency"
    ELSE "ok"

\* HookBuilder::check.
Check(caps, o) ==
    IF o.additional_dependencies # <<>> /\ ~caps.install_env THEN "NoInstallEnv"
    ELSE IF o.additional_dependencies # <<>> /\ ~caps.dependency THEN "NoDependency"
    ELSE IF /\ ~caps.language_version
            /\ o.language_version # "none"
            /\ o.language_version # "default"
         THEN "NoLanguageVersion"
    ELSE "ok"

\* HookBuilder::fill_in_defaults: language_version.get_or_insert_default()
\* gives the default of LanguageVersion, additional_dependencies an empty list.
FillInDefaults(o) ==
    [language_version |->
         IF o.language_version = "none" THEN "default" ELSE o.language_version,
     has_dependencies |-> TRUE,
     additional_dependencies |-> o.additional_dependencies]

\* LanguageRequest::parse: "default" is the request that any version meets,
\* a version string is a request for it, anything else is an error.
ParseRequest(v) ==
    IF v = "default" THEN "Any"
    ELSE IF v = "bad" THEN "ParseError"
    ELSE v

\* extract_metadata_from_entry: for a language that reads inline metadata from
\* the entry script (one that installs dependencies and toolchains), the
\* block found there replaces the dependencies and the version request.
ExtractMetadata(hook, caps, metadata) ==
    IF metadata.found /\ caps.install_env /\ caps.dependency /\ caps.language_version
    THEN [hook EXCEPT !.additional_dependencies = metadata.dependencies,
                      !.language_request =
                          IF metadata.requires = "none" THEN hook.language_request
                          ELSE metadata.requires]
    ELSE hook

\* HookBuilder::build.
HookBuilderBuild(caps, o, metadata) ==
    LET checked == Check(caps, o)
        filled == FillInDefaults(o)
        request == ParseRequest(filled.language_version)
    IN  IF checked # "ok"
        THEN [outcome |-> checked, additional_dependencies |-> {}, language_request |-> "none"]
        ELSE IF request = "ParseError"
        THEN [outcome |-> "ParseError", additional_dependencies |-> {}, language_request |-> "none"]
        ELSE ExtractMetadata(
                 [outcome |-> "Ok",
                  additional_dependencies |->
                      {filled.additional_dependencies[i] :
                           i \in 1..Len(filled.additional_dependencies)},
                  language_request |-> request],
                 caps, metadata)

\* builder.update(hook_config): the hook entry of the project config
\* overrides the manifest hook of a remote repo.
UpdateHook(other) ==
    /\ b_phase = "manifest"
    /\ b_options' = UpdateOptions(b_options, other)
    /\ b_phase' = "updated"
    /\ UNCHANGED <<b_caps, b_default, b_metadata, b_result>>
    /\ UNCHANGED notBuild

\* builder.combine(&self.config): a local hook is combined without update.
CombineHook ==
    /\ b_phase \in {"manifest", "updated"}
    /\ b_options' = CombineOptions(b_options, b_default)
    /\ b_phase' = "combined"
    /\ UNCHANGED <<b_caps, b_default, b_metadata, b_result>>
    /\ UNCHANGED notBuild

\* builder.build().await.
BuildHook ==
    /\ b_phase = "combined"
    /\ b_result' = HookBuilderBuild(b_caps, b_options, b_metadata)
    /\ b_phase' = "built"
    /\ UNCHANGED <<b_caps, b_options, b_default, b_metadata>>
    /\ UNCHANGED notBuild

MetadataBlocks ==
    [found : BOOLEAN, dependencies : {{}, {"Z"}}, requires : {"none", "3.13"}]

InitBuild ==
    /\ IdleUv
    /\ IdleInstall
    /\ IdleKey
    /\ IdleRun
    /\ IdleGuard
    /\ IdleCache
    /\ IdleEnv
    /\ IdleExit
    /\ IdleFiles
    /\ IdleRepos
    /\ IdleConfig
    /\ IdleDir
    /\ b_caps \in Capabilities
    /\ b_options \in WellFormedOptions
    /\ b_default \in {"none", "3.12"}
    /\ b_metadata \in {m \in MetadataBlocks : ~m.found => m = NoMetadata}
    /\ b_phase = "manifest"
    /\ b_result = NoHook

NextBuild ==
    \/ \E other \in WellFormedOptions : UpdateHook(other)
    \/ CombineHook
    \/ BuildHook

SpecBuild == InitBuild /\ [][NextBuild]_vars

\* C23: a build of a hook that lists additional_dependencies for a language
\* that does not support installing dependencies, or that asks for a
\* language_version other than "default" for a language without toolchain
\* installation, fails; a hook that was built has no additional dependencies
\* unless its language supports them and the default version request unless
\* its language supports toolchain installation.
C23_UnsupportedOptionsFailTheBuild ==
    b_phase = "built" =>
        /\ (b_options.additional_dependencies # <<>> /\ ~b_caps.dependency)
               => b_result.outcome \notin {"Ok", "none"}
        /\ (/\ b_options.language_version \notin {"none", "default"}
            /\ ~b_caps.language_version)
               => b_result.outcome \notin {"Ok", "none"}
        /\ b_result.outcome = "Ok" =>
               /\ b_result.additional_dependencies # {} => b_caps.dependency
               /\ b_result.language_request # "Any" => b_caps.language_version

\* A build that failed because the project's override gave dependencies to a
\* hook of a language without dependency support.
C23_Witness ==
    /\ b_phase = "built"
    /\ b_options.additional_dependencies = <<"X">>
    /\ b_caps.install_env /\ ~b_caps.dependency
    /\ b_result.outcome = "NoDependency"


(***************************************************************************)
(* Claims about when the discovery cache is written and what a cached      *)
(* discovery returns.                                                      *)
(***************************************************************************)

\* The cache file that a discover step wrote for the projects it found.
WrittenNow(c, all) ==
    /\ c.kind = "cache"
    /\ c.version = CURRENT_VERSION
    /\ c.created_at = now
    /\ {f.path : f \in c.config_files} = {d \in Range(all) : MetadataOk(d)}

\* The stored cache is as it was, or load removed it.
NotWritten == cache_file' = cache_file \/ cache_file' = NoFile

\* The walk found projects and none of them matched the selectors.
NoProjectMatched ==
    /\ d_result'.fresh
    /\ d_result'.outcome = "MissingConfigFile"
    /\ d_result'.all # <<>>

\* C24 as stated: a discover step that ends in MissingConfigFile because no
\* project matched the selectors writes no cache.
C24_Original ==
    [][(DiscoverStep /\ NoProjectMatched) => NotWritten]_vars

\* C24 (amended): the cache is written by every discover step whose fresh walk
\* succeeded, before the selectors are applied, also when the step then ends
\* in MissingConfigFile because no project matched; it is not written when
\* the walk failed or the projects came from the cache.
C24_CacheWrittenWhenWalkSucceeds ==
    [][DiscoverStep =>
          IF d_result'.fresh /\ d_result'.all # <<>>
          THEN WrittenNow(cache_file', d_result'.all)
          ELSE NotWritten]_vars

\* A fresh discovery ended in MissingConfigFile with projects found, and the
\* stored cache is the one it wrote.
C24_Witness ==
    /\ d_result.fresh
    /\ d_result.outcome = "MissingConfigFile"
    /\ d_result.all # <<>>
    /\ WrittenNow(cache_file, d_result.all)


\* Selectors that accept one or several project paths.
SelectionsOfPaths ==
    {NoSelectors}
        \cup {[given |-> TRUE, paths |-> ps] : ps \in (SUBSET (Dirs \ {Root})) \ {{}}}

\* The config files of a workspace: every directory below the root has no
\* config file, one that loads or one that does not.
Layouts ==
    {fs \in [Dirs -> {NoConfig,
                      [present |-> TRUE, modified |-> 0, size |-> 1, loadable |-> TRUE],
                      [present |-> TRUE, modified |-> 0, size |-> 1, loadable |-> FALSE]}] :
        fs[Root].present /\ fs[Root].loadable}

\* Runs over a workspace whose config files are never created, changed or
\* removed: only discoveries, with any selectors, and the passing of time.
InitSelect ==
    /\ IdleUv
    /\ IdleInstall
    /\ IdleKey
    /\ IdleBuild
    /\ IdleDir
    /\ IdleConfig
    /\ IdleRepos
    /\ IdleFiles
    /\ IdleRun
    /\ IdleGuard
    /\ IdleEnv
    /\ IdleExit
    /\ now = 0
    /\ fs_cfg \in Layouts
    /\ root_exists = TRUE
    /\ cache_file = NoFile
    /\ d_result = NoResult
    /\ env_ops = 0

NextSelect ==
    \/ \E sel \in SelectionsOfPaths, refresh \in BOOLEAN, dry \in BOOLEAN :
           Discover(sel, refresh, dry)
    \/ \E delta \in TickSteps : Tick(delta)

SpecSelect == InitSelect /\ [][NextSelect]_vars

\* What Workspace::discover returns for sel when it does not use the cache.
FreshAnswer(sel) ==
    LET res == DiscoverFresh(sel)
        selected == SelectProjects(SortAndIndex(res.projects), sel)
    IN  IF res.err # "none" THEN [ok |-> FALSE, projects |-> <<>>]
        ELSE IF selected = <<>> THEN [ok |-> FALSE, projects |-> <<>>]
        ELSE [ok |-> TRUE, projects |-> selected]

\* C25 as stated: with no config file added or removed since the cache was
\* written, a discover step answered from the still-valid cache returns the
\* ordered project list and the success or error that a fresh discovery with
\* the same selectors would return, whatever selectors the run that wrote the
\* cache used.
C25_CachedAnswerEqualsFreshAnswer ==
    [][\A sel \in SelectionsOfPaths :
          (/\ DiscoverStep
           /\ ~d_result'.fresh
           /\ Discover(sel, FALSE, d_result'.dry_run))
          => /\ (d_result'.outcome = "ok") = FreshAnswer(sel).ok
             /\ d_result'.outcome = "ok" => d_result'.projects = FreshAnswer(sel).projects]_vars


(***************************************************************************)
(* Reuse of an environment between hooks of different repositories         *)
(* (hook.rs Hook::env_key_dependencies, InstallInfo::matches).             *)
(***************************************************************************)

\* Remote repositories that differ in url or in rev, and the local repo.
KeyRepos ==
    {LocalRepo,
     [kind |-> "remote", url |-> "u", rev |-> "r1"],
     [kind |-> "remote", url |-> "u", rev |-> "r2"],
     [kind |-> "remote", url |-> "v", rev |-> "r1"]}

\* additional_dependencies are strings of the config, not checked by
\* HookBuilder::check: "u@r1" is one a config can list.
KeyDependencies == {{}, {"X"}, {"u@r1"}, {"v@r1"}}

\* The resolved hooks that create and search environments.
KeyHooks ==
    {[language |-> l, repo |-> r, additional_dependencies |-> d,
      language_request |-> [kind |-> "any", version |-> 0]] :
        l \in Languages, r \in KeyRepos, d \in KeyDependencies}

\* InstallInfo::new(hook.language, hook.env_key_dependencies().clone(), ..)
\* followed by with_language_version: the record of an environment created
\* for hook h with toolchain version v.
InstallInfoFor(h, v) ==
    [language |-> h.language,
     language_version |-> v,
     dependencies |-> EnvKeyDependencies(h)]

\* An environment is installed for a hook that found none to reuse.
CreateEnv(h, v) ==
    /\ k_envs = {}
    /\ k_envs' = {[hook |-> h, info |-> InstallInfoFor(h, v)]}
    /\ UNCHANGED k_reuse
    /\ UNCHANGED notKey

\* The reuse search of a later hook returns an environment whose record
\* matches the hook.
ReuseEnv(h) ==
    /\ \E e \in k_envs :
          /\ Matches(e.info, h)
          /\ k_reuse' = {[hook |-> h, env |-> e]}
    /\ UNCHANGED k_envs
    /\ UNCHANGED notKey

\* The store is cleaned.
CleanEnvs ==
    /\ k_envs # {}
    /\ k_envs' = {}
    /\ k_reuse' = {}
    /\ UNCHANGED notKey

InitKey ==
    /\ IdleUv
    /\ IdleInstall
    /\ IdleBuild
    /\ IdleDir
    /\ IdleConfig
    /\ IdleRepos
    /\ IdleFiles
    /\ IdleRun
    /\ IdleGuard
    /\ IdleCache
    /\ IdleEnv
    /\ IdleExit
    /\ IdleKey

NextKey ==
    \/ \E h \in KeyHooks, v \in Versions : CreateEnv(h, v)
    \/ \E h \in KeyHooks : ReuseEnv(h)
    \/ CleanEnvs

SpecKey == InitKey /\ [][NextKey]_vars

\* C26 as stated: an environment created for a hook of a remote repository is
\* reused only by hooks of the same remote repository and revision, never by
\* a hook of another remote repository or revision or by a local hook.
C26_NoReuseAcrossRepositories ==
    \A u \in k_reuse :
        IsRemote(u.env.hook) => u.hook.repo = u.env.hook.repo


\* The directories under the root whose config file loads.  The layouts have
\* no ignored directory and no git submodule.
LoadableDirs == {d \in Dirs : fs_cfg[d].present /\ fs_cfg[d].loadable}

\* C27 as stated, in a workspace without ignored directories and submodules:
\* a fresh discovery that is not ended by the config error of a selected
\* directory emits a project for every directory whose config file loads; a
\* directory whose config does not load and that is not selected is left out,
\* and no other directory with it.
C27_FreshDiscoveryEmitsEveryLoadableDirectory ==
    [][(/\ DiscoverStep
        /\ d_result'.fresh
        /\ d_result'.outcome # "ConfigError")
       => Range(d_result'.all) = LoadableDirs]_vars


(***************************************************************************)
(* Installing and uninstalling the hook script (cli/install.rs).           *)
(***************************************************************************)

\* The script that install writes: HOOK_TMPL, which holds CURRENT_HASH.
PrekScript == "prek"

\* Scripts that prek did not generate: two texts without the hash, and one
\* that is not valid UTF-8.
ForeignScripts == {"A", "B", "binary"}

ScriptContents == {PrekScript} \cup ForeignScripts

FileStates == {"absent"} \cup ScriptContents

\* is_our_script: read_to_string fails on content that is not UTF-8;
\* otherwise the content is searched for the hashes.
IsOurScript(content) ==
    IF content = "binary" THEN "Err"
    ELSE IF content = PrekScript THEN "true"
    ELSE "false"

\* install_hook_script for one hook type: the two files afterwards.
\* fs_err::rename replaces a file that is at the legacy path.
InstallHookScript(hook, legacy, overwrite) ==
    IF hook # "absent" /\ ~overwrite /\ IsOurScript(hook) = "Err"
    THEN [ok |-> FALSE, hook |-> hook, legacy |-> legacy]
    ELSE IF hook # "absent" /\ ~overwrite /\ IsOurScript(hook) = "false"
    THEN [ok |-> TRUE, hook |-> PrekScript, legacy |-> hook]
    ELSE [ok |-> TRUE, hook |-> PrekScript, legacy |-> legacy]

UninstallWithoutRestore(hook, legacy) ==
    IF hook = "absent" THEN [ok |-> TRUE, hook |-> hook, legacy |-> legacy]
    ELSE IF IsOurScript(hook) = "Err" THEN [ok |-> FALSE, hook |-> hook, legacy |-> legacy]
    ELSE IF IsOurScript(hook) = "false" THEN [ok |-> TRUE, hook |-> hook, legacy |-> legacy]
    ELSE [ok |-> TRUE, hook |-> "absent", legacy |-> legacy]

\* uninstall for one hook type: the two files afterwards.
UninstallHook(hook, legacy) ==
    IF hook = "absent" THEN [ok |-> TRUE, hook |-> hook, legacy |-> legacy]
    ELSE IF IsOurScript(hook) = "Err" THEN [ok |-> FALSE, hook |-> hook, legacy |-> legacy]
    ELSE IF IsOurScript(hook) = "false" THEN [ok |-> TRUE, hook |-> hook, legacy |-> legacy]
    ELSE IF legacy # "absent" THEN [ok |-> TRUE, hook |-> legacy, legacy |-> "absent"]
    ELSE [ok |-> TRUE, hook |-> "absent", legacy |-> "absent"]

\* prek install [--overwrite].
Install(overwrite) ==
    /\ LET res == InstallHookScript(i_hook, i_legacy, overwrite)
       IN  /\ i_hook' = res.hook
           /\ i_legacy' = res.legacy
           /\ i_last' = IF res.ok THEN "install" ELSE "install_failed"
    /\ i_before' = [hook |-> i_hook, legacy |-> i_legacy]
    /\ i_overwrite' = overwrite
    /\ UNCHANGED notInstall

\* prek uninstall.  It is a round trip when it follows an install directly.
Uninstall ==
    /\ LET res == UninstallHook(i_hook, i_legacy)
       IN  /\ i_hook' = res.hook
           /\ i_legacy' = res.legacy
           /\ i_last' = IF ~res.ok THEN "uninstall_failed"
                        ELSE IF i_last = "install" THEN "round_trip"
                        ELSE "uninstall"
    /\ UNCHANGED <<i_before, i_overwrite>>
    /\ UNCHANGED notInstall

\* The user, or another tool, puts a script of its own at the hook path.
UserWritesHook(content) ==
    /\ i_hook # content
    /\ i_hook' = content
    /\ i_last' = "none"
    /\ UNCHANGED <<i_legacy, i_before, i_overwrite>>
    /\ UNCHANGED notInstall

InitInstall ==
    /\ IdleUv
    /\ IdleBuild
    /\ IdleDir
    /\ IdleConfig
    /\ IdleRepos
    /\ IdleFiles
    /\ IdleRun
    /\ IdleGuard
    /\ IdleCache
    /\ IdleEnv
    /\ IdleExit
    /\ IdleKey
    /\ i_hook \in {"absent"} \cup ForeignScripts
    /\ i_legacy \in {"absent"} \cup ForeignScripts
    /\ i_before = [hook |-> "absent", legacy |-> "absent"]
    /\ i_last = "none"
    /\ i_overwrite = FALSE

NextInstall ==
    \/ \E overwrite \in BOOLEAN : Install(overwrite)
    \/ Uninstall
    \/ \E content \in ForeignScripts : UserWritesHook(content)

SpecInstall == InitInstall /\ [][NextInstall]_vars

\* A script that prek did not generate was at one of the two paths when the
\* last install began.
ForeignBefore(content) ==
    /\ content \in ForeignScripts
    /\ i_before.hook = content \/ i_before.legacy = content

\* C28 as stated: after an install without --overwrite every script not
\* generated by prek that was at the hook path or at <hook>.legacy before is,
\* with the same content, at one of the two paths.
C28_InstallKeepsForeignScripts ==
    (i_last \in {"install", "install_failed"} /\ ~i_overwrite) =>
        \A content \in ForeignScripts :
            ForeignBefore(content) => (i_hook = content \/ i_legacy = content)

\* C29 as stated: after an install followed by uninstall, a script not
\* generated by prek that was at the hook path before the install is back at
\* the hook path and no <hook>.legacy file remains.
C29_Original ==
    (i_last = "round_trip" /\ i_before.hook \in ForeignScripts) =>
        /\ i_hook = i_before.hook
        /\ i_legacy = "absent"

\* C29 (amended): after an install without --overwrite followed by uninstall,
\* a script not generated by prek that was at the hook path before the
\* install is back at the hook path, no prek script is there and no
\* <hook>.legacy file remains.
C29_InstallUninstallRestoresForeignHook ==
    (i_last = "round_trip" /\ ~i_overwrite /\ i_before.hook \in ForeignScripts) =>
        /\ i_hook = i_before.hook
        /\ i_hook # PrekScript
        /\ i_legacy = "absent"

\* Install without --overwrite found the script A at the hook path, uninstall
\* followed, and A is at the hook path again.
C29_Witness ==
    /\ i_last = "round_trip"
    /\ ~i_overwrite
    /\ i_before.hook = "A"
    /\ i_hook = "A"
    /\ i_legacy = "absent"


(***************************************************************************)
(* The managed uv binary (languages/python/uv.rs Uv::install, step 3).     *)
(***************************************************************************)

\* uv_path.is_file() before the lock is taken.
FirstCheck(p) ==
    /\ u_pc[p] = "start"
    /\ u_pc' = [u_pc EXCEPT ![p] = IF u_binary THEN "found" ELSE "waiting"]
    /\ UNCHANGED <<u_lock, u_binary>>
    /\ UNCHANGED notUv

\* LockedFile::acquire(uv_dir.join(".lock"), "uv") returns when no other
\* process holds the lock.
AcquireLock(p) ==
    /\ u_pc[p] = "waiting"
    /\ u_lock = 0
    /\ u_lock' = p
    /\ u_pc' = [u_pc EXCEPT ![p] = "locked"]
    /\ UNCHANGED u_binary
    /\ UNCHANGED notUv

RecheckSkipped(p) ==
    /\ u_pc[p] = "locked"
    /\ u_pc' = [u_pc EXCEPT ![p] = "installing"]
    /\ UNCHANGED <<u_lock, u_binary>>
    /\ UNCHANGED notUv

\* uv_path.is_file() with the lock held: the binary found is returned and
\* the lock dropped, otherwise the process goes on to install.
Recheck(p) ==
    /\ u_pc[p] = "locked"
    /\ IF u_binary
       THEN /\ u_pc' = [u_pc EXCEPT ![p] = "found_on_recheck"]
            /\ u_lock' = 0
       ELSE /\ u_pc' = [u_pc EXCEPT ![p] = "installing"]
            /\ UNCHANGED u_lock
    /\ UNCHANGED u_binary
    /\ UNCHANGED notUv

\* source.install(store, uv_dir) succeeds: the binary is renamed into the
\* uv directory, the path is returned and the lock dropped.
InstallUv(p) ==
    /\ u_pc[p] = "installing"
    /\ u_binary' = TRUE
    /\ u_pc' = [u_pc EXCEPT ![p] = "installed"]
    /\ u_lock' = 0
    /\ UNCHANGED notUv

\* select_source or source.install fails: the error is returned and the
\* lock dropped, with no binary in the uv directory.
InstallUvFails(p) ==
    /\ u_pc[p] = "installing"
    /\ u_pc' = [u_pc EXCEPT ![p] = "failed"]
    /\ u_lock' = 0
    /\ UNCHANGED u_binary
    /\ UNCHANGED notUv

InitUv ==
    /\ IdleBuild
    /\ IdleDir
    /\ IdleConfig
    /\ IdleRepos
    /\ IdleFiles
    /\ IdleRun
    /\ IdleGuard
    /\ IdleCache
    /\ IdleEnv
    /\ IdleExit
    /\ IdleKey
    /\ IdleInstall
    /\ u_pc = [p \in Procs |-> "start"]
    /\ u_lock = 0
    /\ u_binary = FALSE

NextUv ==
    \/ \E p \in Procs : FirstCheck(p)
    \/ \E p \in Procs : AcquireLock(p)
    \/ \E p \in Procs : Recheck(p)
    \/ \E p \in Procs : InstallUv(p)
    \/ \E p \in Procs : InstallUvFails(p)

SpecUv == InitUv /\ [][NextUv]_vars

====
